---------------------------- MODULE Spec2Model ----------------------------
(***************************************************************************)
(* FootyForecast: the prediction core of the football score predictor.    *)
(*                                                                         *)
(*   backend/feature_engineering.py   FeatureEngineer                      *)
(*   backend/model_trainer.py         FootballModelTrainer                 *)
(*   backend/prediction_agent.py      FootballPredictionAgent              *)
(*                                                                         *)
(* Python floats are modelled in fixed point: a real x is the integer      *)
(* x * Milli (goals, ratings, probabilities, logits in thousandths).       *)
(* Strength advantages, which the code rounds to one decimal, are kept in  *)
(* tenths.  A method is an operator from the object's state (self) and the *)
(* arguments to what it returns or raises.                                 *)
(***************************************************************************)
EXTENDS Integers, Sequences, FiniteSets, TLC

VARIABLES
    trainer,            \* FootballPredictionAgent.trainer (NoTrainer: None)
    feature_engineer,   \* FootballPredictionAgent.feature_engineer.feature_names
    model_file,         \* the joblib file at model_path (NoFile: absent)
    hash_seed,          \* this process's string-hash randomisation key
    xgboost_available,  \* model_trainer.XGBOOST_AVAILABLE of this environment
    call,               \* the call the caller is looking at: arguments, outcome
    engineer,           \* a stand-alone FeatureEngineer's feature_names
    probe_in,           \* arguments of the function under study
    probe_first,        \* what its first call returned
    probe_out           \* what its latest call returned

vars == <<trainer, feature_engineer, model_file, hash_seed, xgboost_available,
          call, engineer, probe_in, probe_first, probe_out>>

agent_vars == <<trainer, feature_engineer, model_file, hash_seed,
                xgboost_available, call>>

probe_vars == <<engineer, probe_in, probe_first, probe_out>>

(***************************************************************************)
(* Arithmetic                                                              *)
(***************************************************************************)
Milli == 1000

Abs(x) == IF x < 0 THEN -x ELSE x

Sign(x) == IF x > 0 THEN 1 ELSE IF x < 0 THEN -1 ELSE 0

Min(a, b) == IF a < b THEN a ELSE b

Max(a, b) == IF a > b THEN a ELSE b

\* np.clip(x, lo, hi)
Clip(x, lo, hi) == Max(lo, Min(hi, x))

\* a / b to the nearest unit of the fixed-point grid (b > 0)
RoundDiv(a, b) == (2 * a + b) \div (2 * b)

\* np.round / round(x, n): a / b to the nearest integer, ties to the even one
RoundHalfEven(a, b) ==
    LET q == a \div b
        r == a % b
    IN  IF 2 * r < b THEN q
        ELSE IF 2 * r > b THEN q + 1
        ELSE IF q % 2 = 0 THEN q ELSE q + 1

RECURSIVE SqrtBetween(_, _, _)
SqrtBetween(n, lo, hi) ==
    IF lo >= hi THEN lo
    ELSE LET mid == (lo + hi + 1) \div 2
         IN  IF mid * mid <= n THEN SqrtBetween(n, mid, hi)
             ELSE SqrtBetween(n, lo, mid - 1)

\* floor of the square root of n, 0 <= n < 2^30
ISqrt(n) == SqrtBetween(n, 0, 32767)

RECURSIVE SumSeq(_)
SumSeq(s) == IF s = <<>> THEN 0 ELSE Head(s) + SumSeq(Tail(s))

Count(s, v) == Cardinality({i \in DOMAIN s : s[i] = v})

\* sorted(s)
Sorted(s) == SortSeq(s, LAMBDA a, b : a < b)

Rep(n, v) == [i \in 1..n |-> v]

(***************************************************************************)
(* Exceptions                                                              *)
(***************************************************************************)
Returned(v) == [status |-> "returned", value |-> v]

Raised(type, msg, got) ==
    [status |-> "raised", type |-> type, msg |-> msg, got |-> got]

(***************************************************************************)
(* FeatureEngineer (feature_engineering.py).  Ratings and form values are  *)
(* integers; every returned statistic is in thousandths.  A dict is the    *)
(* sequence of its <<key, value>> items in insertion order.                *)
(***************************************************************************)
NewFeatureEngineer == <<>>

Keys(items) == [i \in DOMAIN items |-> items[i][1]]

Get(items, key) ==
    LET i == CHOOSE j \in DOMAIN items : items[j][1] = key IN items[i][2]

Prefixed(prefix, items) ==
    [i \in DOMAIN items |-> <<prefix \o items[i][1], items[i][2]>>]

\* np.median
Median(s) ==
    LET n      == Len(s)
        sorted == Sorted(s)
    IN  IF n % 2 = 1 THEN sorted[(n + 1) \div 2] * Milli
        ELSE RoundDiv((sorted[n \div 2] + sorted[n \div 2 + 1]) * Milli, 2)

\* np.std (population): sqrt(n * sum(x^2) - sum(x)^2) / n
Std(s) ==
    LET n  == Len(s)
        sq == SumSeq([i \in DOMAIN s |-> s[i] * s[i]])
        v  == n * sq - SumSeq(s) * SumSeq(s)
    IN  RoundDiv(ISqrt(100 * v) * 100, n)

\* Top3Avg without the sort: the mean of the first three ratings as given.
Top3Avg_FirstThree(s) ==
    LET m == Min(3, Len(s))
    IN  RoundDiv(SumSeq(SubSeq(s, 1, m)) * Milli, m)

\* np.mean(sorted(s, reverse=True)[:3])
Top3Avg(s) ==
    LET n      == Len(s)
        m      == Min(3, n)
        sorted == Sorted(s)
    IN  RoundDiv(SumSeq([k \in 1..m |-> sorted[n + 1 - k]]) * Milli, m)

\* np.mean(sorted(s)[:3])
Bottom3Avg(s) ==
    LET m == Min(3, Len(s))
    IN  RoundDiv(SumSeq(SubSeq(Sorted(s), 1, m)) * Milli, m)

MeanRating(s) == RoundDiv(SumSeq(s) * Milli, Len(s))

calculate_team_statistics(player_ratings) ==
    LET sorted == Sorted(player_ratings)
        hi     == sorted[Len(sorted)]
        lo     == sorted[1]
    IN  << <<"mean_rating",   MeanRating(player_ratings)>>,
           <<"median_rating", Median(player_ratings)>>,
           <<"max_rating",    hi * Milli>>,
           <<"min_rating",    lo * Milli>>,
           <<"std_rating",    Std(player_ratings)>>,
           <<"rating_range",  (hi - lo) * Milli>>,
           <<"top3_avg",      Top3Avg(player_ratings)>>,
           <<"bottom3_avg",   Bottom3Avg(player_ratings)>> >>

FormWeights == <<100, 150, 200, 250, 300>>

\* Momentum taking the mean of the last three results and of the first two.
Momentum_LastThreeFirstTwo(r) ==
    LET n     == Len(r)
        last3 == SubSeq(r, Max(1, n - 2), n)
        head2 == SubSeq(r, 1, Min(2, n))
    IN  RoundDiv((SumSeq(last3) * Len(head2) - SumSeq(head2) * Len(last3)) * Milli,
                 Len(last3) * Len(head2))

\* np.mean(r[-2:]) - np.mean(r[:3])
Momentum(r) ==
    LET n     == Len(r)
        last2 == SubSeq(r, Max(1, n - 1), n)
        head3 == SubSeq(r, 1, Min(3, n))
    IN  RoundDiv((SumSeq(last2) * Len(head3) - SumSeq(head3) * Len(last2)) * Milli,
                 Len(last2) * Len(head3))

\* Raises when results_array * weights cannot be broadcast (length not 5).
calculate_form_features(recent_results) ==
    IF Len(recent_results) # Len(FormWeights) /\ Len(recent_results) # 1
    THEN Raised("ValueError", "operands could not be broadcast together",
                Len(recent_results))
    ELSE LET n     == Len(recent_results)
             wins  == Count(recent_results, 3)
             r(i)  == IF n = 1 THEN recent_results[1] ELSE recent_results[i]
         IN  Returned(
               << <<"total_points",  SumSeq(recent_results) * Milli>>,
                  <<"wins",          wins * Milli>>,
                  <<"draws",         Count(recent_results, 1) * Milli>>,
                  <<"losses",        Count(recent_results, 0) * Milli>>,
                  <<"win_rate",      RoundDiv(wins * Milli, n)>>,
                  <<"weighted_form",
                    SumSeq([i \in 1..Len(FormWeights) |-> r(i) * FormWeights[i]])>>,
                  <<"momentum",      Momentum(recent_results)>> >>)

\* A DataFrame: its columns in order, and its rows.
DataFrame(columns, rows) == [columns |-> columns, rows |-> rows]

Values(items) == [i \in DOMAIN items |-> items[i][2]]

\* pd.DataFrame([features]): one row, the dict's keys as columns
OneRow(features) == DataFrame(Keys(features), <<Values(features)>>)

\* What a method did: the outcome (returned or raised) and the object's state after.
Done(self, outcome) == [self |-> self, outcome |-> outcome]

\* Lines 92-125, given the four dicts of statistics.
FeaturesFrom(home_stats, away_stats, hf, af) ==
    Prefixed("home_", home_stats) \o Prefixed("home_", hf)
    \o Prefixed("away_", away_stats) \o Prefixed("away_", af)
    \o << <<"rating_diff",
            Get(home_stats, "mean_rating") - Get(away_stats, "mean_rating")>>,
          <<"form_diff", Get(hf, "total_points") - Get(af, "total_points")>>,
          <<"top3_diff", Get(home_stats, "top3_avg") - Get(away_stats, "top3_avg")>>,
          <<"momentum_diff", Get(hf, "momentum") - Get(af, "momentum")>>,
          <<"total_strength",
            Get(home_stats, "mean_rating") + Get(away_stats, "mean_rating")>>,
          \* the 1e-6 added to the divisor is below the grid
          <<"strength_ratio",
            RoundDiv(Get(home_stats, "mean_rating") * Milli,
                     Get(away_stats, "mean_rating"))>>,
          <<"home_advantage", Milli>> >>

\* An engineer that records the feature names of the row it builds.
FeaturesOrRaise_RecordsNames(self, home_stats, away_stats, home_ff, away_ff) ==
    IF home_ff.status = "raised" THEN Done(self, home_ff)
    ELSE IF away_ff.status = "raised" THEN Done(self, away_ff)
    ELSE Done(Keys(FeaturesFrom(home_stats, away_stats, home_ff.value, away_ff.value)),
              Returned(OneRow(FeaturesFrom(home_stats, away_stats,
                                           home_ff.value, away_ff.value))))

FeaturesOrRaise(self, home_stats, away_stats, home_ff, away_ff) ==
    IF home_ff.status = "raised" THEN Done(self, home_ff)
    ELSE IF away_ff.status = "raised" THEN Done(self, away_ff)
    ELSE Done(self, Returned(OneRow(FeaturesFrom(home_stats, away_stats,
                                                 home_ff.value, away_ff.value))))

\* An engineer whose recorded feature names are cleared by the call.
engineer_features_from_raw_ClearsNames(self, home_players, away_players, home_form, away_form) ==
    FeaturesOrRaise(NewFeatureEngineer,
                    calculate_team_statistics(home_players),
                    calculate_team_statistics(away_players),
                    calculate_form_features(home_form),
                    calculate_form_features(away_form))

\* engineer_features_from_raw reads and writes nothing of self.
engineer_features_from_raw(self, home_players, away_players, home_form, away_form) ==
    FeaturesOrRaise(self,
                    calculate_team_statistics(home_players),
                    calculate_team_statistics(away_players),
                    calculate_form_features(home_form),
                    calculate_form_features(away_form))

\* A row of the raw dataset (data_generator.generate_dataset's columns).
MatchRow(hp, ap, hf, af, hg, ag) ==
    [home_players |-> hp, away_players |-> ap, home_form |-> hf, away_form |-> af,
     home_goals |-> hg, away_goals |-> ag]

\* The per-row frames of the loop, up to the first row that raises.
RECURSIVE RowFrames(_, _)
RowFramesAfter(r, df) ==
    IF r.outcome.status = "raised" THEN <<r.outcome>>
    ELSE <<r.outcome>> \o RowFrames(r.self, Tail(df))

RowFrames(self, df) ==
    IF df = <<>> THEN <<>>
    ELSE RowFramesAfter(
            engineer_features_from_raw(self, Head(df).home_players,
                Head(df).away_players, Head(df).home_form, Head(df).away_form),
            df)

\* A concatenation that records the column names last to first.
ConcatFrames_RecordsReversed(self, df, all) ==
    IF all # <<>> /\ all[Len(all)].status = "raised" THEN Done(self, all[Len(all)])
    ELSE IF all = <<>>
    THEN Done(self, Raised("ValueError", "No objects to concatenate", 0))
    ELSE Done([i \in DOMAIN all[1].value.columns |->
                  all[1].value.columns[Len(all[1].value.columns) + 1 - i]],
              Returned(<< DataFrame(all[1].value.columns,
                                    [i \in DOMAIN all |-> all[i].value.rows[1]]),
                          [i \in DOMAIN df |-> <<df[i].home_goals, df[i].away_goals>>] >>))

\* pd.concat(all_features) raises on an empty list; feature_names is assigned
\* only after every row has been engineered.
ConcatFrames(self, df, all) ==
    IF all # <<>> /\ all[Len(all)].status = "raised" THEN Done(self, all[Len(all)])
    ELSE IF all = <<>>
    THEN Done(self, Raised("ValueError", "No objects to concatenate", 0))
    ELSE Done(all[1].value.columns,
              Returned(<< DataFrame(all[1].value.columns,
                                    [i \in DOMAIN all |-> all[i].value.rows[1]]),
                          [i \in DOMAIN df |-> <<df[i].home_goals, df[i].away_goals>>] >>))

engineer_features_from_dataframe(self, df) == ConcatFrames(self, df, RowFrames(self, df))

get_feature_names(self) == self

(***************************************************************************)
(* Program constants and the inputs the calls are made with                *)
(***************************************************************************)
NPlayers == 11

NResults == 5

MinRating == 50

MaxRating == 99

\* The example fixture of prediction_agent.py's __main__ (and of the specification).
CityXI == <<88, 90, 87, 92, 89, 86, 91, 88, 90, 87, 93>>

PoolXI == <<85, 87, 84, 88, 86, 83, 87, 85, 88, 84, 90>>

CityForm == <<3, 3, 1, 3, 3>>

PoolForm == <<3, 1, 0, 3, 1>>

FloorXI == Rep(NPlayers, MinRating)

ValidSquads == {CityXI, PoolXI, FloorXI}

ValidForms == {CityForm, PoolForm}

Match(hp, ap, hf, af) ==
    [home_players |-> hp, away_players |-> ap, home_form |-> hf, away_form |-> af]

\* Rows of raw data handed to one engineer_features_from_dataframe call.
MaxRows == 2

(***************************************************************************)
(* math.exp and math.tanh in thousandths                                   *)
(***************************************************************************)
\* exp(x) for 0 <= x <= 0.5 by its series, 1 + x(1 + x/2(1 + x/3(1 + x/4(1 + x/5))))
RECURSIVE ExpSeries(_, _)
ExpSeries(x, k) ==
    IF k > 5 THEN Milli
    ELSE Milli + RoundDiv(x * ExpSeries(x, k + 1), k * Milli)

RECURSIVE Exp(_)
Exp(x) ==
    IF x < 0 THEN RoundDiv(Milli * Milli, Exp(-x))
    ELSE IF x <= 500 THEN ExpSeries(x, 1)
    ELSE LET h == Exp(x \div 2)
         IN  RoundDiv(RoundDiv(h * h, Milli) * ExpSeries(x % 2, 1), Milli)

RECURSIVE Tanh(_)
Tanh(x) ==
    IF x < 0 THEN -Tanh(-x)
    ELSE LET e2 == Exp(2 * x) IN RoundDiv((e2 - Milli) * Milli, e2 + Milli)

(***************************************************************************)
(* FootballModelTrainer (model_trainer.py).  A fitted multi-output         *)
(* regressor is a function of the feature row known only to the library    *)
(* that fitted it; here it is one of a few given ones, each giving         *)
(* <<home goals, away goals>> in thousandths from the row's rating_diff.   *)
(***************************************************************************)
MaxGoals == 8

NoModel == [kind |-> "none"]

Regressor(home, away, slope) == [home |-> home, away |-> away, slope |-> slope]

Cell(X, i, name) ==
    LET j == CHOOSE k \in DOMAIN X.columns : X.columns[k] = name IN X.rows[i][j]

\* MultiOutputRegressor.predict(X): one <<home, away>> per row of X
RegressorPredict(reg, X) ==
    [i \in DOMAIN X.rows |->
        LET d == Cell(X, i, "rating_diff")
        IN  <<reg.home + RoundDiv(reg.slope * d, Milli),
              reg.away - RoundDiv(reg.slope * d, Milli)>>]

NewTrainer(model_type) ==
    [status |-> "trainer", model_type |-> model_type, model |-> NoModel,
     feature_engineer |-> NewFeatureEngineer, metrics |-> <<>>]

ModelIsDict(model) == model.kind = "ensemble"

\* The raw outputs predict reads: rf_pred and second_pred, or the one model's.
ModelOutputs(self, X) ==
    IF self.model_type = "ensemble"
    THEN <<RegressorPredict(self.model.rf, X), RegressorPredict(self.model.second, X)>>
    ELSE <<RegressorPredict(self.model.single, X)>>

\* predict: on a trainer whose model is None the subscript (ensemble) or the
\* attribute access (single model) raises.
\* Lines 203-211 with astype(int) applied to the mean itself, unrounded.
Averaged_Truncating(out, n, rows) ==
    [i \in rows |->
        [k \in 1..2 |->
            Clip(SumSeq([j \in 1..n |-> out[j][i][k]]) \div (n * Milli), 0, MaxGoals)]]

\* Lines 203-211: the mean of the n models' outputs, rounded and clipped
Averaged(out, n, rows) ==
    [i \in rows |->
        [k \in 1..2 |->
            Clip(RoundHalfEven(SumSeq([j \in 1..n |-> out[j][i][k]]), n * Milli),
                 0, MaxGoals)]]

predict(self, X) ==
    IF self.model_type = "ensemble" /\ ~ModelIsDict(self.model)
    THEN Raised("TypeError", "'NoneType' object is not subscriptable", 0)
    ELSE IF self.model_type # "ensemble" /\ self.model.kind # "single"
    THEN Raised("AttributeError", "'NoneType' object has no attribute 'predict'", 0)
    ELSE Returned(Averaged(ModelOutputs(self, X),
                           IF self.model_type = "ensemble" THEN 2 ELSE 1,
                           DOMAIN X.rows))

\* data_generator.generate_dataset(n_samples) under its fixed seed: the same rows
\* on every call, here taken in turn from a few given ones.
SampleRows ==
    << MatchRow(CityXI, PoolXI, CityForm, PoolForm, 2, 1),
       MatchRow(PoolXI, FloorXI, PoolForm, CityForm, 3, 0),
       MatchRow(FloorXI, CityXI, PoolForm, PoolForm, 0, 2) >>

generate_dataset(n_samples) ==
    [i \in 1..n_samples |-> SampleRows[((i - 1) % Len(SampleRows)) + 1]]

\* train_test_split(X, y, test_size=0.2): ceil(0.2 n) test rows, and an error
\* when no row is left to train on.  The split's fixed shuffle is the identity here.
SplitData(self, n_samples, n_train, r) ==
    IF r.outcome.status = "raised"
    THEN Done([self EXCEPT !.feature_engineer = r.self], r.outcome)
    ELSE IF n_train = 0
    THEN Done([self EXCEPT !.feature_engineer = r.self],
              Raised("ValueError", "the resulting train set will be empty", n_samples))
    ELSE Done([self EXCEPT !.feature_engineer = r.self],
              Returned(
                [X_train |-> DataFrame(r.outcome.value[1].columns,
                                       SubSeq(r.outcome.value[1].rows, 1, n_train)),
                 X_test  |-> DataFrame(r.outcome.value[1].columns,
                                       SubSeq(r.outcome.value[1].rows,
                                              n_train + 1, n_samples)),
                 y_train |-> SubSeq(r.outcome.value[2], 1, n_train),
                 y_test  |-> SubSeq(r.outcome.value[2], n_train + 1, n_samples)]))

prepare_data(self, n_samples) ==
    SplitData(self, n_samples, n_samples - ((n_samples + 4) \div 5),
              engineer_features_from_dataframe(self.feature_engineer,
                                               generate_dataset(n_samples)))

\* create_model, for the single-model types
create_model(self, xgboost) ==
    IF self.model_type = "random_forest" THEN Returned("RandomForestRegressor")
    ELSE IF self.model_type = "xgboost"
    THEN IF ~xgboost THEN Raised("ValueError", "XGBoost is not available", 0)
         ELSE Returned("XGBRegressor")
    ELSE IF self.model_type = "gradient_boost" THEN Returned("GradientBoostingRegressor")
    ELSE IF self.model_type = "ensemble" THEN Returned("None")
    ELSE Raised("ValueError", "Unknown model type", 0)

\* train: fitted is what the library's fit calls produce on (X_train, y_train).
train(self, fitted, xgboost) ==
    IF self.model_type = "ensemble"
    THEN Done([self EXCEPT !.model =
                 [kind |-> "ensemble", rf |-> fitted[1],
                  second_key |-> IF xgboost THEN "xgb" ELSE "gb",
                  second |-> fitted[2]]],
              Returned("None"))
    ELSE LET created == create_model(self, xgboost)
         IN  IF created.status = "raised" THEN Done(self, created)
             ELSE Done([self EXCEPT !.model = [kind |-> "single", single |-> fitted[1]]],
                       Returned("None"))

\* Lines 203-207: the mean of the n models' outputs as it stands before line
\* 210 rounds it, in thousandths of a goal
Continuous(out, n, rows) ==
    [i \in rows |-> [k \in 1..2 |-> RoundDiv(SumSeq([j \in 1..n |-> out[j][i][k]]), n)]]

\* goal counts as predictions in thousandths of a goal
Thousandths(pred) == [i \in DOMAIN pred |-> [k \in 1..2 |-> pred[i][k] * Milli]]

\* the squared errors of output k summed over the rows, in millionths
SquaredErrors(y_true, y_pred, n, k) ==
    SumSeq([i \in 1..n |-> (y_true[i][k] * Milli - y_pred[i][k])
                           * (y_true[i][k] * Milli - y_pred[i][k])])

\* n * n times the variance of the actual goals of output k
Spread(y_true, n, k) ==
    n * SumSeq([i \in 1..n |-> y_true[i][k] * y_true[i][k]])
    - SumSeq([i \in 1..n |-> y_true[i][k]]) * SumSeq([i \in 1..n |-> y_true[i][k]])

\* sklearn.metrics.mean_absolute_error over both outputs
mean_absolute_error(y_true, y_pred, n) ==
    RoundDiv(SumSeq([i \in 1..n |-> Abs(y_true[i][1] * Milli - y_pred[i][1])
                                   + Abs(y_true[i][2] * Milli - y_pred[i][2])]), 2 * n)

\* np.sqrt(sklearn.metrics.mean_squared_error) over both outputs
root_mean_squared_error(y_true, y_pred, n) ==
    ISqrt(RoundDiv(SquaredErrors(y_true, y_pred, n, 1)
                   + SquaredErrors(y_true, y_pred, n, 2), 2 * n))

NaN == "nan"

\* r2 of one output: 1 - residual sum of squares / total sum of squares, and
\* 1 or 0 when the actual goals do not vary
R2Output(y_true, y_pred, n, k) ==
    IF Spread(y_true, n, k) = 0
    THEN IF SquaredErrors(y_true, y_pred, n, k) = 0 THEN Milli ELSE 0
    ELSE Milli - RoundDiv(SquaredErrors(y_true, y_pred, n, k) * n,
                          Milli * Spread(y_true, n, k))

\* sklearn.metrics.r2_score: the mean over both outputs; not a number with
\* fewer than two rows
r2_score(y_true, y_pred, n) ==
    IF n < 2 THEN NaN
    ELSE RoundDiv(R2Output(y_true, y_pred, n, 1) + R2Output(y_true, y_pred, n, 2), 2)

\* evaluate, lines 229-254: every metric is computed from predict's output.
Metrics(y_test, pred, n) ==
    [mae      |-> mean_absolute_error(y_test, Thousandths(pred), n),
     rmse     |-> root_mean_squared_error(y_test, Thousandths(pred), n),
     r2       |-> r2_score(y_test, Thousandths(pred), n),
     home_mae |-> RoundDiv(SumSeq([i \in 1..n |-> Abs(y_test[i][1] - pred[i][1])])
                           * Milli, n),
     away_mae |-> RoundDiv(SumSeq([i \in 1..n |-> Abs(y_test[i][2] - pred[i][2])])
                           * Milli, n),
     exact_match_accuracy |->
         RoundDiv(Cardinality({i \in 1..n : pred[i] = y_test[i]}) * Milli, n),
     winner_accuracy |->
         RoundDiv(Cardinality({i \in 1..n :
                     Sign(y_test[i][1] - y_test[i][2]) = Sign(pred[i][1] - pred[i][2])})
                  * Milli, n)]

Evaluated(self, metrics) == Done([self EXCEPT !.metrics = metrics], Returned(metrics))

EvaluateWith(self, y_test, p) ==
    IF p.status = "raised" THEN Done(self, p)
    ELSE Evaluated(self, Metrics(y_test, p.value, Len(y_test)))

\* evaluate computing its metrics from predictions cut down to whole goals.
evaluate_OfTruncated(self, X_test, y_test) ==
    EvaluateWith(self, y_test,
                 Returned(Averaged_Truncating(ModelOutputs(self, X_test),
                                              IF self.model_type = "ensemble" THEN 2 ELSE 1,
                                              DOMAIN X_test.rows)))

evaluate(self, X_test, y_test) == EvaluateWith(self, y_test, predict(self, X_test))

NoFile == [status |-> "none"]

\* save_model: what joblib.dump writes
save_model(self) ==
    [status |-> "file", model |-> self.model, model_type |-> self.model_type,
     feature_engineer |-> self.feature_engineer, metrics |-> self.metrics]

\* load_model leaving the new trainer's own FeatureEngineer in place.
load_model_FreshEngineer(model_data) ==
    [NewTrainer(model_data.model_type) EXCEPT
        !.model = model_data.model,
        !.metrics = model_data.metrics]

\* load_model: what joblib.load of that file gives back
load_model(model_data) ==
    [NewTrainer(model_data.model_type) EXCEPT
        !.model = model_data.model,
        !.feature_engineer = model_data.feature_engineer,
        !.metrics = model_data.metrics]

(***************************************************************************)
(* FootballPredictionAgent (prediction_agent.py)                           *)
(***************************************************************************)
NoTrainer == [status |-> "none"]

MaxRefined == 6

FormValues == {0, 1, 3}

\* the ratings r with 50 <= r <= 99
RatingsInRange == MinRating..MaxRating

\* the first element of s for which ok fails (there is one)
FirstBad(s, allowed) ==
    s[CHOOSE i \in DOMAIN s : s[i] \notin allowed /\ \A j \in 1..(i - 1) : s[j] \in allowed]

\* Lines 368-390, given the two lists the loops run over.
CheckInputs(home_players, away_players, home_form, away_form, ratings, results) ==
    IF Len(home_players) # NPlayers
    THEN Raised("ValueError", "Home team must have exactly 11 players",
                Len(home_players))
    ELSE IF Len(away_players) # NPlayers
    THEN Raised("ValueError", "Away team must have exactly 11 players",
                Len(away_players))
    ELSE IF \E i \in DOMAIN ratings : ratings[i] \notin RatingsInRange
    THEN Raised("ValueError", "Player rating must be between 50 and 99",
                FirstBad(ratings, RatingsInRange))
    ELSE IF Len(home_form) # NResults
    THEN Raised("ValueError", "Home form must have exactly 5 results", Len(home_form))
    ELSE IF Len(away_form) # NResults
    THEN Raised("ValueError", "Away form must have exactly 5 results", Len(away_form))
    ELSE IF \E i \in DOMAIN results : results[i] \notin FormValues
    THEN Raised("ValueError", "Form results must be 0 (loss), 1 (draw), or 3 (win)",
                FirstBad(results, FormValues))
    ELSE Returned("None")

\* A validation whose rating loop runs over the home ratings only.
_validate_inputs_HomeRatingsOnly(home_players, away_players, home_form, away_form) ==
    CheckInputs(home_players, away_players, home_form, away_form,
                home_players, home_form \o away_form)

_validate_inputs(home_players, away_players, home_form, away_form) ==
    CheckInputs(home_players, away_players, home_form, away_form,
                home_players \o away_players, home_form \o away_form)

ResultLabel(home_score, away_score) ==
    IF home_score > away_score THEN "Home Win"
    ELSE IF home_score < away_score THEN "Away Win"
    ELSE "Draw"

\* round(np.mean(players), 1), in tenths
Strength(players) == RoundHalfEven(SumSeq(players) * 10, Len(players))

\* A strength advantage cut to one decimal instead of rounded.
StrengthAdvantage_Truncated(home_players, away_players) ==
    ((SumSeq(home_players) * Len(away_players)
      - SumSeq(away_players) * Len(home_players)) * 10)
        \div (Len(home_players) * Len(away_players))

\* round(np.mean(home) - np.mean(away), 1), in tenths
StrengthAdvantage(home_players, away_players) ==
    RoundHalfEven((SumSeq(home_players) * Len(away_players)
                   - SumSeq(away_players) * Len(home_players)) * 10,
                  Len(home_players) * Len(away_players))

\* One run of a call: its outcome, whether trainer.predict was called, the
\* raw outputs the fitted models gave it, and the columns of the frame passed.
Run(outcome, consulted, model_outputs, passed) ==
    [outcome |-> outcome, consulted |-> consulted, model_outputs |-> model_outputs,
     passed |-> passed]

\* Lines 119-146: the result label and the dict returned.
ResultDict(m, home_score, away_score) ==
    [home_score |-> home_score,
     away_score |-> away_score,
     result |-> ResultLabel(home_score, away_score),
     home_team_strength |-> Strength(m.home_players),
     away_team_strength |-> Strength(m.away_players),
     strength_advantage |-> StrengthAdvantage(m.home_players, m.away_players),
     home_form_points |-> SumSeq(m.home_form),
     away_form_points |-> SumSeq(m.away_form),
     form_advantage |-> SumSeq(m.home_form) - SumSeq(m.away_form)]

\* Lines 114-117, given what trainer.predict did.
Predicted(self_trainer, m, X, prediction) ==
    IF prediction.status = "raised" THEN Run(prediction, TRUE, <<>>, X.columns)
    ELSE Run(Returned(ResultDict(m, prediction.value[1][1], prediction.value[1][2])),
             TRUE, ModelOutputs(self_trainer, X), X.columns)

\* Lines 106-114, given what engineer_features_from_raw did.
PredictFrom(self_trainer, m, features) ==
    IF features.status = "raised" THEN Run(features, FALSE, <<>>, <<>>)
    ELSE Predicted(self_trainer, m, features.value,
                   predict(self_trainer, features.value))

\* Lines 99-111, given what _validate_inputs did.
Validated(self_trainer, self_feature_engineer, m, checked) ==
    IF checked.status = "raised" THEN Run(checked, FALSE, <<>>, <<>>)
    ELSE IF self_trainer = NoTrainer
    THEN Run(Raised("ValueError",
                    "No model loaded. Please train or load a model first.", 0),
             FALSE, <<>>, <<>>)
    ELSE PredictFrom(self_trainer, m,
            engineer_features_from_raw(self_feature_engineer, m.home_players,
                m.away_players, m.home_form, m.away_form).outcome)

predict_match(self_trainer, self_feature_engineer, m) ==
    Validated(self_trainer, self_feature_engineer, m,
              _validate_inputs(m.home_players, m.away_players,
                               m.home_form, m.away_form))

\* batch_predict: predict_match per entry, the first exception ending the call.
RECURSIVE BatchLoop(_, _, _, _)
\* A loop that passes over an entry predict_match raises for.
BatchStep_SkipsFailed(self_trainer, self_feature_engineer, matches, predictions, run) ==
    IF run.outcome.status = "raised"
    THEN BatchLoop(self_trainer, self_feature_engineer, Tail(matches), predictions)
    ELSE BatchLoop(self_trainer, self_feature_engineer, Tail(matches),
            Append(predictions,
                   [match_id |-> Head(matches).match_id] @@ run.outcome.value))

BatchStep(self_trainer, self_feature_engineer, matches, predictions, run) ==
    IF run.outcome.status = "raised" THEN run.outcome
    ELSE BatchLoop(self_trainer, self_feature_engineer, Tail(matches),
            Append(predictions,
                   [match_id |-> Head(matches).match_id] @@ run.outcome.value))

BatchLoop(self_trainer, self_feature_engineer, matches, predictions) ==
    IF matches = <<>> THEN Returned(predictions)
    ELSE BatchStep(self_trainer, self_feature_engineer, matches, predictions,
            predict_match(self_trainer, self_feature_engineer, Head(matches).players))

batch_predict(self_trainer, self_feature_engineer, matches) ==
    BatchLoop(self_trainer, self_feature_engineer, matches, <<>>)

(***************************************************************************)
(* _refine_scoreline.  The generator's variates are read from a stream of  *)
(* quantile indices: the i-th draw of the call is the stream's i-th entry, *)
(* taken through the distribution asked for.                               *)
(***************************************************************************)
ZScore == <<-3000, -1000, 0, 1000, 3000>>

UnitPoint == <<0, 250, 500, 750, 999>>

Quantiles == DOMAIN ZScore

\* rng.normal(0, sigma)
Normal(sigma, q) == RoundDiv(sigma * ZScore[q], Milli)

\* rng.uniform(lo, hi)
Uniform(lo, hi, q) == lo + RoundDiv((hi - lo) * UnitPoint[q], Milli)

\* rng.random()
Random(q) == UnitPoint[q]

\* The body of _refine_scoreline after the generator is seeded, in the order of
\* its statements.  strength_edge is in tenths.  Besides the two scores the record
\* returned carries the locals noisy_diff and bias (0 when not drawn), the scores
\* as rounded at lines 322-323, whether they were level, and the number of
\* variates drawn.

\* Lines 332-335
Refined(used, noisy_diff, rounded, bias, home_score, away_score) ==
    [home_score |-> IF home_score = 0 /\ away_score = 0 THEN 1 ELSE home_score,
     away_score |-> away_score,
     noisy_diff |-> noisy_diff, level |-> rounded[1] = rounded[2], rounded |-> rounded,
     bias |-> bias, used |-> used]

\* The tie-break with its second test made first: the away side is tried
\* before the home side.
BreakLevel_AwayFirst(used, noisy_diff, bias, home_score, away_score) ==
    IF noisy_diff < -400 \/ bias < -150
    THEN Refined(used, noisy_diff, <<home_score, away_score>>, bias,
                 home_score, Min(away_score + 1, MaxRefined))
    ELSE IF noisy_diff > 400 \/ bias > 150
    THEN Refined(used, noisy_diff, <<home_score, away_score>>, bias,
                 Min(home_score + 1, MaxRefined), away_score)
    ELSE Refined(used, noisy_diff, <<home_score, away_score>>, bias, home_score, away_score)

\* Lines 327-330
BreakLevel(used, noisy_diff, bias, home_score, away_score) ==
    IF noisy_diff > 400 \/ bias > 150
    THEN Refined(used, noisy_diff, <<home_score, away_score>>, bias,
                 Min(home_score + 1, MaxRefined), away_score)
    ELSE IF noisy_diff < -400 \/ bias < -150
    THEN Refined(used, noisy_diff, <<home_score, away_score>>, bias,
                 home_score, Min(away_score + 1, MaxRefined))
    ELSE Refined(used, noisy_diff, <<home_score, away_score>>, bias, home_score, away_score)

\* Lines 325-326
Rounded(stream, used, edge_hint, noisy_diff, home_score, away_score) ==
    IF home_score = away_score
    THEN BreakLevel(used + 1, noisy_diff, edge_hint + Normal(150, stream[used + 1]),
                    home_score, away_score)
    ELSE Refined(used, noisy_diff, <<home_score, away_score>>, 0, home_score, away_score)

\* Estimates rounded and capped at 6, but not held at 0 from below.
Estimate_NoLowerClip(stream, used, noisy_total, edge_hint, noisy_diff) ==
    Rounded(stream, used, edge_hint, noisy_diff,
            Min(RoundHalfEven(noisy_total + noisy_diff, 2 * Milli), MaxRefined),
            Min(RoundHalfEven(2 * noisy_total - (noisy_total + noisy_diff), 2 * Milli),
                MaxRefined))

\* Lines 319-323: home_est = noisy_total/2 + noisy_diff/2 and
\* away_est = noisy_total - home_est, both doubled here
Estimate(stream, used, noisy_total, edge_hint, noisy_diff) ==
    Rounded(stream, used, edge_hint, noisy_diff,
            Clip(RoundHalfEven(noisy_total + noisy_diff, 2 * Milli), 0, MaxRefined),
            Clip(RoundHalfEven(2 * noisy_total - (noisy_total + noisy_diff), 2 * Milli),
                 0, MaxRefined))

\* Line 317
Nudged(stream, used, noisy_total, edge_hint, noisy_diff, nudge) ==
    Estimate(stream, used, noisy_total, edge_hint,
             noisy_diff + nudge + 350 * Sign(IF edge_hint # 0 THEN edge_hint ELSE nudge))

\* Lines 314-316
Nudge(stream, noisy_total, edge_hint, noisy_diff, nudge) ==
    IF nudge = 0
    THEN Nudged(stream, 5, noisy_total, edge_hint, noisy_diff,
                IF Random(stream[5]) > 500 THEN 350 ELSE -350)
    ELSE Nudged(stream, 4, noisy_total, edge_hint, noisy_diff, nudge)

\* Line 313
DrawBreaker(stream, noisy_total, edge_hint, noisy_diff) ==
    IF Abs(noisy_diff) < 350
    THEN Nudge(stream, noisy_total, edge_hint, noisy_diff, Normal(400, stream[4]))
    ELSE Estimate(stream, 3, noisy_total, edge_hint, noisy_diff)

\* Lines 305-307
NoisyDiff(stream, noisy_total, expected_diff, edge_hint) ==
    DrawBreaker(stream, noisy_total, edge_hint,
                Clip(expected_diff + edge_hint + Normal(750, stream[3]), -4500, 4500))

\* Lines 294-304
RefineWith(stream, base_home, base_away, strength_edge, form_edge) ==
    NoisyDiff(stream,
              Clip(Max(base_home + base_away, 2) * Milli
                   + Uniform(-350, 550, stream[1]) + Normal(650, stream[2]),
                   1600, 7000),
              (base_home - base_away) * Milli + 12 * strength_edge + 80 * form_edge,
              Tanh(RoundDiv(18 * strength_edge + 120 * form_edge, 4)))

\* Width of the string hash and of the seed taken from it (64 and 32 bits in
\* CPython and in "% (2**32)"; narrowed here in the same order).
HashBits == 16

SeedBits == 8

\* The keys string hashing may be randomised with, one per process.
MaxHashKey == 1

HashKeys == 0..MaxHashKey

RECURSIVE HashFold(_, _)
HashFold(h, chars) ==
    IF chars = <<>> THEN h
    ELSE HashFold((h * 31 + Head(chars)) % (2 ^ HashBits), Tail(chars))

\* hash(string) in a process whose hash randomisation key is key: a signed value
hash(key, string) ==
    LET u == HashFold((key * 7919) % (2 ^ HashBits), string)
    IN  IF u >= 2 ^ (HashBits - 1) THEN u - 2 ^ HashBits ELSE u

\* f"{home_team_name}-{away_team_name}": strings are sequences of character codes
Fixture(home_team_name, away_team_name) == home_team_name \o <<45>> \o away_team_name

Seed(key, home_team_name, away_team_name) ==
    Abs(hash(key, Fixture(home_team_name, away_team_name))) % (2 ^ SeedBits)

\* np.random.default_rng(seed): the stream is a function of the seed alone
default_rng(seed) ==
    [i \in 1..6 |-> ((((seed + 17) * (31 * i + 7)) \div 3) % Len(ZScore)) + 1]

_refine_scoreline(key, home_team_name, away_team_name, base_home, base_away, strength_edge, form_edge) ==
    RefineWith(default_rng(Seed(key, home_team_name, away_team_name)),
               base_home, base_away, strength_edge, form_edge)

(***************************************************************************)
(* predict_match_detailed                                                  *)
(***************************************************************************)
\* Lines 234-270: the probabilities, in millionths, and the suggested outcome.
Temperature == 1650

Neutral == <<370, 260, 370>>

\* The last of the largest probabilities instead of the first.
Suggested_LastLargest(probs) ==
    <<"home", "draw", "away">>[
        CHOOSE k \in 1..3 : /\ \A j \in 1..3 : probs[j] <= probs[k]
                            /\ \A j \in (k + 1)..3 : probs[j] < probs[k]]

\* Line 270: max(probs, key=probs.get), the first of the largest
Suggested(probs) ==
    <<"home", "draw", "away">>[
        CHOOSE k \in 1..3 : /\ \A j \in 1..3 : probs[j] <= probs[k]
                            /\ \A j \in 1..(k - 1) : probs[j] < probs[k]]

Probabilities(tie_bias, probs) ==
    [home_win |-> probs[1], draw |-> probs[2], away_win |-> probs[3],
     suggested |-> Suggested(probs), tie_bias |-> tie_bias]

\* Lines 267-268
Normalised(blended, blend_total) ==
    [k \in 1..3 |-> RoundDiv(blended[k] * Milli * Milli, blend_total)]

\* A renormalisation whose total leaves the draw out.
Blended_SumWithoutDraw(tie_bias, blended) ==
    Probabilities(tie_bias, Normalised(blended, blended[1] + blended[3]))

Blended(tie_bias, blended) ==
    Probabilities(tie_bias, Normalised(blended, SumSeq(blended)))

\* Lines 262-266
Blend(base_probs) ==
    [k \in 1..3 |->
        Max(50, Min(900, RoundDiv(720 * base_probs[k] + 280 * Neutral[k], Milli)))]

\* Lines 254-260, in the order home_win, draw, away_win
BaseProbs(raw_home, raw_draw, raw_away, total) ==
    <<RoundDiv(raw_home * Milli, total), RoundDiv(raw_draw * Milli, total),
      RoundDiv(raw_away * Milli, total)>>

Softmax(tie_bias, raw_home, raw_draw, raw_away) ==
    Blended(tie_bias, Blend(BaseProbs(raw_home, raw_draw, raw_away,
                                      raw_home + raw_away + raw_draw)))

\* Lines 247-253
Logits(diff, tie_bias) ==
    Softmax(tie_bias,
            Exp(RoundDiv((diff * Milli + tie_bias) * Milli, Temperature)),
            RoundDiv(350 * Exp(-RoundDiv(Abs(diff) * Milli * Milli,
                                         RoundDiv(Temperature * 900, Milli))
                               - RoundDiv(Abs(tie_bias) * 350, Milli)), Milli) + 120,
            Exp(RoundDiv((-diff * Milli - tie_bias) * Milli, Temperature)))

\* Line 241
outcome_probabilities(diff, strength_edge, form_edge) ==
    Logits(diff, Tanh(3 * strength_edge + 20 * form_edge))

\* Lines 201-228: the fields the report prints
Report(home_team_name, away_team_name, prediction) ==
    [home_team_name |-> home_team_name,
     away_team_name |-> away_team_name,
     home_score |-> prediction.home_score,
     away_score |-> prediction.away_score,
     result |-> prediction.result,
     home_team_strength |-> prediction.home_team_strength,
     away_team_strength |-> prediction.away_team_strength,
     home_form_points |-> prediction.home_form_points,
     away_form_points |-> prediction.away_form_points,
     strength_advantage |-> Abs(prediction.strength_advantage),
     strength_to |-> IF prediction.strength_advantage > 0
                     THEN home_team_name ELSE away_team_name,
     form_advantage |-> Abs(prediction.form_advantage),
     form_to |-> IF prediction.form_advantage > 0
                 THEN home_team_name ELSE away_team_name]

\* Lines 272-280
Detailed(prediction, report, p) ==
    [home_win |-> p.home_win, draw |-> p.draw, away_win |-> p.away_win,
     suggested |-> p.suggested,
     home_score |-> prediction.home_score,
     away_score |-> prediction.away_score,
     report |-> report]

\* Lines 201-280, given the prediction with the refined scoreline in it
Reported(home_team_name, away_team_name, prediction) ==
    Detailed(prediction, Report(home_team_name, away_team_name, prediction),
             outcome_probabilities(prediction.home_score - prediction.away_score,
                                   prediction.strength_advantage,
                                   prediction.form_advantage))

\* The refined scores stored under the label of the raw ones.
Relabelled_KeepsFirstLabel(home_team_name, away_team_name, first, refined) ==
    Reported(home_team_name, away_team_name,
             [first EXCEPT
                !.home_score = refined.home_score,
                !.away_score = refined.away_score])

\* Lines 187-195
Relabelled(home_team_name, away_team_name, first, refined) ==
    Reported(home_team_name, away_team_name,
             [first EXCEPT
                !.home_score = refined.home_score,
                !.away_score = refined.away_score,
                !.result = ResultLabel(refined.home_score, refined.away_score)])

\* Lines 179-186, given what predict_match did
DetailedFrom(key, home_team_name, away_team_name, run) ==
    IF run.outcome.status = "raised" THEN run
    ELSE [run EXCEPT !.outcome =
            Returned(Relabelled(home_team_name, away_team_name, run.outcome.value,
                        _refine_scoreline(key, home_team_name, away_team_name,
                            run.outcome.value.home_score, run.outcome.value.away_score,
                            run.outcome.value.strength_advantage,
                            run.outcome.value.form_advantage)))]

predict_match_detailed(self_trainer, self_feature_engineer, key, home_team_name, away_team_name, m) ==
    DetailedFrom(key, home_team_name, away_team_name,
                 predict_match(self_trainer, self_feature_engineer, m))

(***************************************************************************)
(* Spec: one agent process after another over one model file, driven by a  *)
(* single-threaded caller that looks at each call's outcome (Collect)      *)
(* before it makes the next call.                                          *)
(***************************************************************************)
NoCall == [op |-> "none"]

\* Team names, as character codes: "ARS", "CHE"
TeamNames == {<<65, 82, 83>>, <<67, 72, 69>>}

BadSquads ==
    {Rep(NPlayers - 1, 75), Rep(NPlayers + 1, 75),
     [PoolXI EXCEPT ![1] = MinRating - 1], [CityXI EXCEPT ![NPlayers] = MaxRating + 1]}

BadForms == {Rep(NResults - 1, 1), Rep(NResults + 1, 3), <<3, 3, 2, 3, 3>>}

ValidMatches ==
    {Match(hp, ap, hf, af) : hp \in ValidSquads, ap \in ValidSquads,
                             hf \in ValidForms, af \in ValidForms}

Faults(m) ==
    Cardinality((IF m.home_players \in BadSquads THEN {1} ELSE {})
                \cup (IF m.away_players \in BadSquads THEN {2} ELSE {})
                \cup (IF m.home_form \in BadForms THEN {3} ELSE {})
                \cup (IF m.away_form \in BadForms THEN {4} ELSE {}))

\* Invalid arguments: the example fixture with up to MaxFaults of its four
\* arguments replaced by an invalid one.
MaxFaults == 2

FaultyMatches ==
    {m \in {Match(hp, ap, hf, af) : hp \in {CityXI} \cup BadSquads,
                                    ap \in {PoolXI} \cup BadSquads,
                                    hf \in {CityForm} \cup BadForms,
                                    af \in {PoolForm} \cup BadForms} :
        1 <= Faults(m) /\ Faults(m) <= MaxFaults}

MatchInputs == ValidMatches \cup FaultyMatches

DetailInputs == ValidMatches \cup {m \in FaultyMatches : Faults(m) = 1}

\* Entries of a batch: match.get('match_id', None) is "None" for an entry without id.
BatchEntries ==
    {[players |-> Match(CityXI, PoolXI, CityForm, PoolForm), match_id |-> "m1"],
     [players |-> Match(FloorXI, CityXI, PoolForm, CityForm), match_id |-> "None"],
     [players |-> Match(PoolXI, CityXI, <<3, 3, 2, 3, 3>>, PoolForm), match_id |-> "m3"]}

MaxBatch == 2

Batches == UNION {[1..n -> BatchEntries] : n \in 0..MaxBatch}

\* n_samples of a train_model call
MaxSamples == 2

ModelTypes == {"ensemble", "random_forest", "xgboost"}

\* What fitting can produce: <<first model, second model>> (a single-model
\* trainer fits the first only).
Fits ==
    { <<Regressor(1500, 1200, 250), Regressor(1900, 800, 150)>>,
      <<Regressor(2000, 3000, 0), Regressor(3000, 4000, 0)>> }

Init ==
    /\ trainer = NoTrainer
    /\ feature_engineer = NewFeatureEngineer
    /\ model_file = NoFile
    /\ hash_seed \in HashKeys
    /\ xgboost_available \in BOOLEAN
    /\ call = NoCall
    /\ engineer = NewFeatureEngineer
    /\ probe_in = NoCall
    /\ probe_first = NoCall
    /\ probe_out = NoCall

\* train_model: the agent's trainer is replaced first; prepare_data, train,
\* evaluate and save_model follow, and the first of them to raise ends the call.
\* Lines 61-68, given the trainer and the outcome of the last step run.
TrainModelEnds(last) ==
    /\ trainer' = last.self
    /\ IF last.outcome.status = "raised"
       THEN UNCHANGED <<feature_engineer, model_file>>
       ELSE /\ model_file' = save_model(last.self)
            /\ feature_engineer' = last.self.feature_engineer
    /\ call' = [op |-> "train_model",
                outcome |-> IF last.outcome.status = "raised" THEN last.outcome
                            ELSE Returned("None")]

\* Lines 58-61, given what trainer.train did.
Trained(trained, data) ==
    IF trained.outcome.status = "raised" THEN TrainModelEnds(trained)
    ELSE TrainModelEnds(evaluate(trained.self, data.X_test, data.y_test))

\* Lines 55-58, given what trainer.prepare_data did.
Prepared(prepared, fitted) ==
    IF prepared.outcome.status = "raised" THEN TrainModelEnds(prepared)
    ELSE Trained(train(prepared.self, fitted, xgboost_available),
                 prepared.outcome.value)

train_model(n_samples, model_type, fitted) ==
    /\ call = NoCall
    /\ Prepared(prepare_data(NewTrainer(model_type), n_samples), fitted)
    /\ UNCHANGED <<hash_seed, xgboost_available>>
    /\ UNCHANGED probe_vars

\* load_model: joblib.load raises when there is no file.
agent_load_model ==
    /\ call = NoCall
    /\ IF model_file = NoFile
       THEN /\ call' = [op |-> "load_model",
                        outcome |-> Raised("FileNotFoundError", "No such file", 0)]
            /\ UNCHANGED <<trainer, feature_engineer>>
       ELSE /\ trainer' = load_model(model_file)
            /\ feature_engineer' = load_model(model_file).feature_engineer
            /\ call' = [op |-> "load_model", outcome |-> Returned("None")]
    /\ UNCHANGED <<model_file, hash_seed, xgboost_available>>
    /\ UNCHANGED probe_vars

\* A new process constructs its agent (__init__): the model is loaded when the
\* file exists; string hashing gets this process's key.
Restart ==
    /\ call = NoCall
    /\ hash_seed' \in HashKeys
    /\ IF model_file = NoFile
       THEN trainer' = NoTrainer /\ feature_engineer' = NewFeatureEngineer
       ELSE /\ trainer' = load_model(model_file)
            /\ feature_engineer' = load_model(model_file).feature_engineer
    /\ UNCHANGED <<model_file, xgboost_available, call>>
    /\ UNCHANGED probe_vars

PredictMatch(m) ==
    /\ call = NoCall
    /\ call' = [op |-> "predict_match", args |-> m,
                run |-> predict_match(trainer, feature_engineer, m)]
    /\ UNCHANGED <<trainer, feature_engineer, model_file, hash_seed, xgboost_available>>
    /\ UNCHANGED probe_vars

PredictMatchDetailed(home_team_name, away_team_name, m) ==
    /\ call = NoCall
    /\ call' = [op |-> "predict_match_detailed", args |-> m,
                home_team_name |-> home_team_name, away_team_name |-> away_team_name,
                first |-> predict_match(trainer, feature_engineer, m),
                run |-> predict_match_detailed(trainer, feature_engineer, hash_seed,
                                               home_team_name, away_team_name, m)]
    /\ UNCHANGED <<trainer, feature_engineer, model_file, hash_seed, xgboost_available>>
    /\ UNCHANGED probe_vars

BatchPredict(matches) ==
    /\ call = NoCall
    /\ call' = [op |-> "batch_predict", args |-> matches,
                outcome |-> batch_predict(trainer, feature_engineer, matches)]
    /\ UNCHANGED <<trainer, feature_engineer, model_file, hash_seed, xgboost_available>>
    /\ UNCHANGED probe_vars

\* The caller has looked at the outcome and goes on.
Collect ==
    /\ call # NoCall
    /\ call' = NoCall
    /\ UNCHANGED <<trainer, feature_engineer, model_file, hash_seed, xgboost_available>>
    /\ UNCHANGED probe_vars

Next ==
    \/ \E n \in 0..MaxSamples, t \in ModelTypes, f \in Fits : train_model(n, t, f)
    \/ agent_load_model
    \/ Restart
    \/ \E m \in MatchInputs : PredictMatch(m)
    \/ \E h \in TeamNames, a \in TeamNames, m \in DetailInputs :
          PredictMatchDetailed(h, a, m)
    \/ \E ms \in Batches : BatchPredict(ms)
    \/ Collect

Spec == Init /\ [][Next]_vars

(***************************************************************************)
(* Properties of the agent (Spec).  call holds the last call made and what *)
(* it did; trainer, feature_engineer and hash_seed are what the call ran   *)
(* with, since no prediction call changes them.                            *)
(***************************************************************************)
\* The inputs the predict_match docstring asks for.
ValidMatch(m) ==
    /\ Len(m.home_players) = 11
    /\ Len(m.away_players) = 11
    /\ \A i \in DOMAIN m.home_players : 50 <= m.home_players[i] /\ m.home_players[i] <= 99
    /\ \A i \in DOMAIN m.away_players : 50 <= m.away_players[i] /\ m.away_players[i] <= 99
    /\ Len(m.home_form) = 5
    /\ Len(m.away_form) = 5
    /\ \A i \in DOMAIN m.home_form : m.home_form[i] \in {0, 1, 3}
    /\ \A i \in DOMAIN m.away_form : m.away_form[i] \in {0, 1, 3}

\* Every <<constraint, offending count or value>> that is true of the inputs m.
Violations(m) ==
    LET ratings == m.home_players \o m.away_players
        results == m.home_form \o m.away_form
    IN  (IF Len(m.home_players) # 11
         THEN {<<"Home team must have exactly 11 players", Len(m.home_players)>>}
         ELSE {})
        \cup (IF Len(m.away_players) # 11
              THEN {<<"Away team must have exactly 11 players", Len(m.away_players)>>}
              ELSE {})
        \cup {<<"Player rating must be between 50 and 99", ratings[i]>> :
                i \in {j \in DOMAIN ratings : ratings[j] < 50 \/ ratings[j] > 99}}
        \cup (IF Len(m.home_form) # 5
              THEN {<<"Home form must have exactly 5 results", Len(m.home_form)>>}
              ELSE {})
        \cup (IF Len(m.away_form) # 5
              THEN {<<"Away form must have exactly 5 results", Len(m.away_form)>>}
              ELSE {})
        \cup {<<"Form results must be 0 (loss), 1 (draw), or 3 (win)", results[i]>> :
                i \in {j \in DOMAIN results : results[j] \notin {0, 1, 3}}}

\* The trainer the agent holds has a fitted model.
Fitted == trainer # NoTrainer /\ trainer.model # NoModel

\* C1: predict_match called with inputs that break any of the constraints (11
\* ratings a side, each in [50,99], 5 results a side, each in {0,1,3}) raises a
\* ValueError and returns nothing; the error names a constraint the inputs do
\* break together with the offending count or value; and trainer.predict has not
\* been called.  This holds whatever trainer the agent holds.
C1_InvalidInputsRejected ==
    (call.op = "predict_match" /\ ~ValidMatch(call.args)) =>
        /\ call.run.outcome.status = "raised"
        /\ call.run.outcome.type = "ValueError"
        /\ <<call.run.outcome.msg, call.run.outcome.got>> \in Violations(call.args)
        /\ ~call.run.consulted

\* predict_match on an agent with a fitted model has rejected an away squad whose
\* last rating is 100, and named that rating.
C1_Witness ==
    /\ Fitted
    /\ call.op = "predict_match"
    /\ Len(call.args.home_players) = 11
    /\ Len(call.args.away_players) = 11
    /\ call.args.away_players[11] = 100
    /\ call.run.outcome.status = "raised"
    /\ call.run.outcome.got = 100

NoModelLoaded ==
    Raised("ValueError", "No model loaded. Please train or load a model first.", 0)

\* C5 (as the spec states it): whenever the agent has no fitted model - it holds
\* no trainer, or the trainer of a train_model call that failed part-way -
\* predict_match, predict_match_detailed and batch_predict called with valid
\* inputs raise the agent's 'No model loaded' error.
C5_NoModelLoadedWithoutFittedModel ==
    ~Fitted =>
        /\ (call.op \in {"predict_match", "predict_match_detailed"}
              /\ ValidMatch(call.args))
              => call.run.outcome = NoModelLoaded
        /\ (call.op = "batch_predict" /\ call.args # <<>>
              /\ \A i \in DOMAIN call.args : ValidMatch(call.args[i].players))
              => call.outcome = NoModelLoaded

\* The three labels, each iff its comparison of the two scores holds.
LabelMatches(home_score, away_score, result) ==
    /\ result = "Home Win" <=> home_score > away_score
    /\ result = "Away Win" <=> home_score < away_score
    /\ result = "Draw" <=> home_score = away_score

\* C6: the result predict_match returns is 'Home Win', 'Away Win' or 'Draw'
\* exactly as its home_score is above, below or equal to its away_score; and the
\* report of predict_match_detailed shows the refined scores, the ones the call
\* returns, under the label that the same rule gives for them.
C6_LabelMatchesScores ==
    /\ (call.op = "predict_match" /\ call.run.outcome.status = "returned") =>
          LabelMatches(call.run.outcome.value.home_score,
                       call.run.outcome.value.away_score,
                       call.run.outcome.value.result)
    /\ (call.op = "predict_match_detailed" /\ call.run.outcome.status = "returned") =>
          LET v       == call.run.outcome.value
              first   == call.first.outcome.value
              refined == _refine_scoreline(hash_seed, call.home_team_name,
                            call.away_team_name, first.home_score, first.away_score,
                            first.strength_advantage, first.form_advantage)
          IN  /\ v.home_score = refined.home_score
              /\ v.away_score = refined.away_score
              /\ v.report.home_score = v.home_score
              /\ v.report.away_score = v.away_score
              /\ LabelMatches(v.report.home_score, v.report.away_score, v.report.result)

\* predict_match_detailed has returned a report whose label differs from the
\* label predict_match gave the raw scores.
C6_Witness ==
    /\ call.op = "predict_match_detailed"
    /\ call.run.outcome.status = "returned"
    /\ call.first.outcome.value.result # call.run.outcome.value.report.result

\* C7: batch_predict returns one prediction per entry, in the order of the
\* entries, the i-th being what predict_match returns for the i-th entry with that
\* entry's match_id ("None" for an entry without one) added; and when an entry
\* fails validation, or predict_match raises for any entry, the call raises and
\* returns no list.
C7_BatchIsPredictMatchPerEntry ==
    call.op = "batch_predict" =>
        LET each == [i \in DOMAIN call.args |->
                        predict_match(trainer, feature_engineer,
                                      call.args[i].players).outcome]
        IN  /\ (\E i \in DOMAIN call.args : ~ValidMatch(call.args[i].players))
                  => call.outcome.status = "raised"
            /\ IF \E i \in DOMAIN each : each[i].status = "raised"
               THEN call.outcome.status = "raised"
               ELSE /\ call.outcome.status = "returned"
                    /\ Len(call.outcome.value) = Len(call.args)
                    /\ \A i \in DOMAIN call.args :
                          /\ call.outcome.value[i].match_id = call.args[i].match_id
                          /\ \A f \in DOMAIN each[i].value :
                                call.outcome.value[i][f] = each[i].value[f]
                          /\ DOMAIN call.outcome.value[i]
                                = DOMAIN each[i].value \cup {"match_id"}

\* batch_predict has returned the predictions of two different entries, the second
\* of them without a match_id.
C7_Witness ==
    /\ call.op = "batch_predict"
    /\ Len(call.args) = 2
    /\ call.args[1] # call.args[2]
    /\ call.args[2].match_id = "None"
    /\ call.outcome.status = "returned"
    /\ call.outcome.value[1].home_team_strength # call.outcome.value[2].home_team_strength

\* C8: whenever predict_match has called trainer.predict on a fitted trainer, each
\* of the two scores predict gave is an integer in [0,8]: an integer nearest to
\* the mean of the fitted models' raw outputs (two models in ensemble mode, one
\* otherwise), clipped to [0,8].
C8_PredictRoundsAndClips ==
    (call.op = "predict_match" /\ call.run.consulted /\ Fitted) =>
        LET out    == call.run.model_outputs
            n      == Len(out)
            v      == call.run.outcome.value
            scores == <<v.home_score, v.away_score>>
        IN  /\ call.run.outcome.status = "returned"
            /\ n = (IF trainer.model_type = "ensemble" THEN 2 ELSE 1)
            /\ \A k \in 1..2 :
                  /\ scores[k] \in 0..8
                  /\ \E r \in -20..20 :
                        /\ 2 * Abs(SumSeq([j \in 1..n |-> out[j][1][k]]) - n * 1000 * r)
                              <= n * 1000
                        /\ scores[k] = Clip(r, 0, 8)

\* An ensemble has given a home mean of 2.5 goals, rounded to 2, and a raw away
\* output below zero is reported as 0.
C8_Witness ==
    /\ call.op = "predict_match"
    /\ call.run.consulted
    /\ Fitted
    /\ trainer.model_type = "ensemble"
    /\ \/ /\ call.run.model_outputs[1][1][1] + call.run.model_outputs[2][1][1] = 5000
          /\ call.run.outcome.value.home_score = 2
       \/ /\ call.run.model_outputs[1][1][2] + call.run.model_outputs[2][1][2] < -1000
          /\ call.run.outcome.value.away_score = 0

\* The example of the module's main block (and of the spec).
ExampleMatch == Match(CityXI, PoolXI, CityForm, PoolForm)

\* What predict_match reports besides the strength advantage.
FormReport(m, v) ==
    /\ v.home_form_points = SumSeq(m.home_form)
    /\ v.away_form_points = SumSeq(m.away_form)
    /\ v.form_advantage = SumSeq(m.home_form) - SumSeq(m.away_form)
    /\ v.result \in {"Home Win", "Draw", "Away Win"}

\* C9 (amended): for valid inputs predict_match reports the two sums of form
\* points, their difference, a result among the three labels, and as
\* strength_advantage the difference of the mean ratings rounded to one decimal
\* (here in tenths); for the example inputs, 13, 8, 5 and a strength advantage
\* of 3.1.
C9_ReportedAdvantages ==
    (call.op = "predict_match" /\ call.run.outcome.status = "returned") =>
        LET m == call.args
            v == call.run.outcome.value
        IN  /\ ValidMatch(m)
            /\ FormReport(m, v)
            /\ 2 * Abs(10 * (SumSeq(m.home_players) - SumSeq(m.away_players))
                       - 11 * v.strength_advantage) <= 11
            /\ m = ExampleMatch =>
                  /\ SumSeq(m.home_players) = 981 /\ SumSeq(m.away_players) = 947
                  /\ v.home_form_points = 13
                  /\ v.away_form_points = 8
                  /\ v.form_advantage = 5
                  /\ v.strength_advantage = 31

\* predict_match has returned its prediction for the example inputs.
C9_Witness ==
    /\ call.op = "predict_match"
    /\ call.args = ExampleMatch
    /\ call.run.outcome.status = "returned"
    /\ call.run.outcome.value.home_form_points = 13

\* C9 (as the spec states it): the same, with the example's strength advantage
\* between +2.5 and +3.0.
C9_ExampleAdvantageUpToThree ==
    (call.op = "predict_match" /\ call.run.outcome.status = "returned") =>
        LET m == call.args
            v == call.run.outcome.value
        IN  /\ FormReport(m, v)
            /\ 2 * Abs(10 * (SumSeq(m.home_players) - SumSeq(m.away_players))
                       - 11 * v.strength_advantage) <= 11
            /\ m = ExampleMatch =>
                  /\ v.home_form_points = 13
                  /\ v.away_form_points = 8
                  /\ v.form_advantage = 5
                  /\ 25 <= v.strength_advantage /\ v.strength_advantage <= 30

\* The feature-name lists recorded so far: on the agent's engineer, on the
\* trainer's engineer and in the model file.
RecordedNames ==
    ({feature_engineer}
     \cup (IF trainer = NoTrainer THEN {} ELSE {trainer.feature_engineer})
     \cup (IF model_file = NoFile THEN {} ELSE {model_file.feature_engineer}))
    \ {NewFeatureEngineer}

\* C11: after any sequence of training, saving, loading and inference, the
\* columns of the frame predict_match passes to a fitted trainer are, name for
\* name and in order, the list the trainer's engineer recorded when the model
\* was fitted (37 names), which is also the list on the agent's engineer; and
\* every list recorded anywhere has that one value, so a recorded list never
\* changes value.
C11_PassedColumnsAreRecordedNames ==
    /\ \A x \in RecordedNames : \A y \in RecordedNames : x = y
    /\ Fitted => /\ trainer.feature_engineer # NewFeatureEngineer
                 /\ feature_engineer = trainer.feature_engineer
    /\ (call.op \in {"predict_match", "predict_match_detailed"}
          /\ call.run.consulted /\ Fitted) =>
            /\ Len(call.run.passed) = 37
            /\ call.run.passed = trainer.feature_engineer

\* A model trained, saved and loaded by a later process has been passed a frame
\* by predict_match.
C11_Witness ==
    /\ call.op = "predict_match"
    /\ call.run.consulted
    /\ Fitted
    /\ model_file # NoFile
    /\ trainer = load_model(model_file)
    /\ call.run.passed = model_file.feature_engineer
    /\ call.run.outcome.status = "returned"

\* The frames the round trip is tried on: the features of two valid matches.
RoundTripFrames ==
    {engineer_features_from_raw(NewFeatureEngineer, m.home_players, m.away_players,
                                m.home_form, m.away_form).outcome.value :
        m \in {ExampleMatch, Match(PoolXI, FloorXI, PoolForm, CityForm)}}

\* the trainer `loaded` carries what the trainer `saved` carried
SameTrainer(saved, loaded) ==
    /\ loaded.model_type = saved.model_type
    /\ loaded.model = saved.model
    /\ loaded.feature_engineer = saved.feature_engineer
    /\ loaded.metrics = saved.metrics
    /\ \A X \in RoundTripFrames : predict(loaded, X) = predict(saved, X)

\* C14: a trainer saved with save_model and loaded back with load_model has the
\* same model_type, the same fitted model(s), the same feature engineer with its
\* list of feature names and the same metrics, and predicts the same goals for
\* the same input.  Checked of the trainer train_model has just saved, and of
\* the trainer the agent's load_model has just loaded from the file.
C14_SaveLoadRoundTrip ==
    /\ (call.op = "train_model" /\ call.outcome.status = "returned") =>
          /\ model_file = save_model(trainer)
          /\ SameTrainer(trainer, load_model(model_file))
    /\ (call.op = "load_model" /\ call.outcome.status = "returned") =>
          /\ trainer.model_type = model_file.model_type
          /\ trainer.model = model_file.model
          /\ trainer.feature_engineer = model_file.feature_engineer
          /\ trainer.metrics = model_file.metrics
          /\ SameTrainer(load_model(model_file), trainer)

\* The agent has loaded a fitted ensemble, with its 37 feature names and its
\* metrics, from the file.
C14_Witness ==
    /\ call.op = "load_model" /\ call.outcome.status = "returned"
    /\ trainer.model_type = "ensemble" /\ ModelIsDict(trainer.model)
    /\ Len(trainer.feature_engineer) = 37
    /\ trainer.metrics # <<>>
    /\ \A X \in RoundTripFrames : predict(trainer, X).status = "returned"

(***************************************************************************)
(* SpecFeatures: a FeatureEngineer on its own, called with any arguments.  *)
(***************************************************************************)
FeatureInputs ==
    {Match(hp, ap, f[1], f[2]) : hp \in ValidSquads, ap \in ValidSquads,
                                f \in {<<CityForm, PoolForm>>, <<PoolForm, CityForm>>}}
    \cup {Match(CityXI, PoolXI, Rep(NResults - 1, 1), PoolForm),
          Match(CityXI, PoolXI, CityForm, Rep(NResults + 1, 3)),
          Match(Rep(NPlayers + 1, 75), PoolXI, CityForm, PoolForm)}

\* The raw datasets handed to engineer_features_from_dataframe.
FeatureFrames ==
    {Rep(n, MatchRow(m.home_players, m.away_players, m.home_form, m.away_form, 1, 0)) :
        n \in 0..MaxRows,
        m \in {Match(CityXI, PoolXI, CityForm, PoolForm),
               Match(PoolXI, FloorXI, PoolForm, CityForm)}}

AgentIdle ==
    /\ trainer = NoTrainer
    /\ feature_engineer = NewFeatureEngineer
    /\ model_file = NoFile
    /\ hash_seed = 0
    /\ xgboost_available = FALSE
    /\ call = NoCall

InitFeatures ==
    /\ AgentIdle
    /\ engineer = NewFeatureEngineer
    /\ probe_in = NoCall
    /\ probe_first = NoCall
    /\ probe_out = NoCall

FeRaw(m) ==
    LET r   == engineer_features_from_raw(engineer, m.home_players, m.away_players,
                                          m.home_form, m.away_form)
        rec == [args |-> m, before |-> engineer, after |-> r.self,
                outcome |-> r.outcome]
    IN  /\ engineer' = r.self
        /\ probe_in' = m
        /\ probe_out' = rec
        /\ probe_first' = IF probe_first = NoCall THEN rec ELSE probe_first
        /\ UNCHANGED agent_vars

FeDataframe(df) ==
    LET r == engineer_features_from_dataframe(engineer, df)
    IN  /\ engineer' = r.self
        /\ UNCHANGED <<probe_in, probe_first, probe_out>>
        /\ UNCHANGED agent_vars

NextFeatures ==
    \/ \E m \in FeatureInputs : FeRaw(m)
    \/ \E df \in FeatureFrames : FeDataframe(df)

SpecFeatures == InitFeatures /\ [][NextFeatures]_vars

\* C10: engineer_features_from_raw is a pure function of its four arguments.
\* Every call leaves the engineer's feature_names as it found them; a call with
\* the arguments of the first call returns what the first call returned; and for
\* valid arguments it returns one row of 37 distinct named features, the same
\* names in the same order as any other call returned.
C10_EngineerFromRawIsPure ==
    probe_out # NoCall =>
        /\ probe_out.after = probe_out.before
        /\ probe_out.args = probe_first.args => probe_out.outcome = probe_first.outcome
        /\ ValidMatch(probe_out.args) =>
              /\ probe_out.outcome.status = "returned"
              /\ Len(probe_out.outcome.value.rows) = 1
              /\ Len(probe_out.outcome.value.columns) = 37
              /\ Len(probe_out.outcome.value.rows[1]) = 37
              /\ Cardinality({probe_out.outcome.value.columns[i] :
                                i \in DOMAIN probe_out.outcome.value.columns}) = 37
              /\ ValidMatch(probe_first.args) =>
                    probe_out.outcome.value.columns = probe_first.outcome.value.columns

\* A second call with the first call's valid arguments, made after the engineer
\* has recorded its feature names, has returned.
C10_Witness ==
    /\ probe_out # NoCall
    /\ ValidMatch(probe_out.args)
    /\ probe_out.args = probe_first.args
    /\ probe_out.before # NewFeatureEngineer
    /\ probe_first.before = NewFeatureEngineer
    /\ probe_out.outcome.status = "returned"

(***************************************************************************)
(* SpecRefine: the body of _refine_scoreline on any base scores, over      *)
(* every outcome of the variates it draws.                                 *)
(***************************************************************************)
\* <<strength_edge in tenths, form_edge>>: the extremes that valid inputs allow
\* (ratings 99 against 50, five wins against five losses), and values between.
Edges ==
    {<<se, fe>> : se \in {-490, -31, 0, 31, 490}, fe \in {-15, 0, 5, 15}}

RefineInputs ==
    {[base_home |-> bh, base_away |-> ba, strength_edge |-> e[1], form_edge |-> e[2]] :
        bh \in 0..MaxGoals, ba \in 0..MaxGoals, e \in Edges}

\* The most variates one call draws.
MaxDraws == 6

InitRefine ==
    /\ AgentIdle
    /\ engineer = NewFeatureEngineer
    /\ probe_in \in RefineInputs
    /\ probe_first = NoCall
    /\ probe_out = NoCall

\* The call with the variates drawn so far; it draws another when it reads past them.
RECURSIVE RefineDrawing(_)
RefineDrawing(stream) ==
    LET r == RefineWith(stream \o Rep(MaxDraws - Len(stream), 1),
                        probe_in.base_home, probe_in.base_away,
                        probe_in.strength_edge, probe_in.form_edge)
    IN  IF r.used <= Len(stream)
        THEN probe_out' = [args |-> probe_in, stream |-> stream, result |-> r]
        ELSE \E q \in Quantiles : RefineDrawing(Append(stream, q))

RefineScoreline ==
    /\ probe_out = NoCall
    /\ RefineDrawing(<<>>)
    /\ UNCHANGED <<engineer, probe_in, probe_first>>
    /\ UNCHANGED agent_vars

NextRefine == RefineScoreline

SpecRefine == InitRefine /\ [][NextRefine]_vars

\* C2: for every base score pair in [0,8]x[0,8], every strength and form edge and
\* every outcome of the draws, _refine_scoreline returns two integers in [0,6]
\* that are not both 0.
C2_RefinedScoresInRange ==
    probe_out # NoCall =>
        /\ probe_out.result.home_score \in 0..6
        /\ probe_out.result.away_score \in 0..6
        /\ ~(probe_out.result.home_score = 0 /\ probe_out.result.away_score = 0)

\* From base scores 8-0 the call has returned 6-1, the difference having been
\* clipped; or from 0-0 it has returned a scoreline with a single goal in it.
C2_Witness ==
    /\ probe_out # NoCall
    /\ \/ /\ probe_out.args.base_home = 8
          /\ probe_out.args.base_away = 0
          /\ probe_out.result.noisy_diff = 4500
          /\ probe_out.result.home_score = 6
          /\ probe_out.result.away_score = 1
       \/ /\ probe_out.args.base_home = 0
          /\ probe_out.args.base_away = 0
          /\ probe_out.result.home_score + probe_out.result.away_score = 1

\* C17: when the rounded scores are level, _refine_scoreline adds a goal to the
\* home side if noisy_diff > 0.4 or bias > 0.15, otherwise to the away side if
\* noisy_diff < -0.4 or bias < -0.15, otherwise to neither; the side given a
\* goal has exactly one more than it had and at most 6, and the other side has
\* what it had; so a scoreline returned level had |noisy_diff| <= 0.4 and
\* |bias| <= 0.15.  Scores that are not level after rounding are returned as
\* rounded.
C17_LevelScoresBroken ==
    probe_out # NoCall =>
        LET r    == probe_out.result
            home == r.rounded[1]
            away == r.rounded[2]
        IN  /\ r.level <=> home = away
            /\ (r.level /\ (r.noisy_diff > 400 \/ r.bias > 150)) =>
                  /\ r.home_score = home + 1 /\ r.home_score <= 6
                  /\ r.away_score = away
            /\ (r.level /\ ~(r.noisy_diff > 400 \/ r.bias > 150)
                        /\ (r.noisy_diff < -400 \/ r.bias < -150)) =>
                  /\ r.away_score = away + 1 /\ r.away_score <= 6
                  /\ r.home_score = home
            /\ (r.level /\ ~(r.noisy_diff > 400 \/ r.bias > 150)
                        /\ ~(r.noisy_diff < -400 \/ r.bias < -150)) =>
                  /\ r.home_score = home /\ r.away_score = away
            /\ r.home_score = r.away_score =>
                  /\ r.level
                  /\ Abs(r.noisy_diff) <= 400 /\ Abs(r.bias) <= 150
            /\ ~r.level => r.home_score = home /\ r.away_score = away

\* Level rounded scores have been broken in favour of the home side although
\* noisy_diff was below -0.4, the bias being above 0.15.
C17_Witness ==
    /\ probe_out # NoCall
    /\ probe_out.result.level
    /\ probe_out.result.noisy_diff < -400 /\ probe_out.result.bias > 150
    /\ probe_out.result.home_score = probe_out.result.rounded[1] + 1
    /\ probe_out.result.away_score = probe_out.result.rounded[2]

(***************************************************************************)
(* SpecProbs: lines 234-270 of predict_match_detailed on any refined goal  *)
(* difference and any edges.                                               *)
(***************************************************************************)
ProbInputs ==
    {[diff |-> d, strength_edge |-> se, form_edge |-> fe] :
        d \in (-MaxRefined)..MaxRefined,
        se \in {-490 + 70 * k : k \in 0..14},
        fe \in {-15, -8, -3, 0, 3, 8, 15}}

InitProbs ==
    /\ AgentIdle
    /\ engineer = NewFeatureEngineer
    /\ probe_in \in ProbInputs
    /\ probe_first = NoCall
    /\ probe_out = NoCall

OutcomeProbabilities ==
    /\ probe_out = NoCall
    /\ probe_out' = [args |-> probe_in,
                     result |-> outcome_probabilities(probe_in.diff,
                                    probe_in.strength_edge, probe_in.form_edge)]
    /\ UNCHANGED <<engineer, probe_in, probe_first>>
    /\ UNCHANGED agent_vars

NextProbs == OutcomeProbabilities

SpecProbs == InitProbs /\ [][NextProbs]_vars

\* C3: for every refined goal difference in [-6,6] and every strength and form
\* advantage, home_win, draw and away_win are each in [0,1] and sum to 1 within
\* 1e-6 (probabilities are in millionths).
C3_ProbabilitiesSumToOne ==
    probe_out # NoCall =>
        /\ probe_out.result.home_win \in 0..1000000
        /\ probe_out.result.draw \in 0..1000000
        /\ probe_out.result.away_win \in 0..1000000
        /\ Abs(probe_out.result.home_win + probe_out.result.draw
               + probe_out.result.away_win - 1000000) <= 1

\* The probabilities of a level scoreline between unequal teams: the three are
\* all different and the stronger side is suggested.
C3_Witness ==
    /\ probe_out # NoCall
    /\ probe_out.args.diff = 0
    /\ probe_out.args.strength_edge = 490
    /\ probe_out.result.home_win > probe_out.result.away_win
    /\ probe_out.result.away_win > probe_out.result.draw
    /\ probe_out.result.suggested = "home"

(***************************************************************************)
(* SpecSeed: _refine_scoreline called for the same fixtures by one process *)
(* after another.                                                          *)
(***************************************************************************)
SeedInputs ==
    {[home_team_name |-> h, away_team_name |-> a, base_home |-> b[1],
      base_away |-> b[2], strength_edge |-> b[3], form_edge |-> b[4]] :
        h \in TeamNames, a \in TeamNames,
        b \in {<<2, 1, 31, 5>>, <<0, 0, 0, 0>>, <<3, 3, -4, 1>>}}

InitSeed ==
    /\ trainer = NoTrainer
    /\ feature_engineer = NewFeatureEngineer
    /\ model_file = NoFile
    /\ hash_seed \in HashKeys
    /\ xgboost_available = FALSE
    /\ call = NoCall
    /\ engineer = NewFeatureEngineer
    /\ probe_in = NoCall
    /\ probe_first = NoCall
    /\ probe_out = NoCall

\* A new process: string hashing gets this process's key.
NewProcess ==
    /\ hash_seed' \in HashKeys
    /\ UNCHANGED <<trainer, feature_engineer, model_file, xgboost_available, call>>
    /\ UNCHANGED probe_vars

\* What a _refine_scoreline call of this process does with the arguments in.
Refinement(in) ==
    [args |-> in,
     seed |-> Seed(hash_seed, in.home_team_name, in.away_team_name),
     scores |-> <<_refine_scoreline(hash_seed, in.home_team_name, in.away_team_name,
                     in.base_home, in.base_away, in.strength_edge,
                     in.form_edge).home_score,
                  _refine_scoreline(hash_seed, in.home_team_name, in.away_team_name,
                     in.base_home, in.base_away, in.strength_edge,
                     in.form_edge).away_score>>]

RefineCall(in) ==
    /\ probe_in' = in
    /\ probe_out' = Refinement(in)
    /\ probe_first' = IF probe_first = NoCall THEN Refinement(in) ELSE probe_first
    /\ UNCHANGED engineer
    /\ UNCHANGED agent_vars

NextSeed ==
    \/ NewProcess
    \/ \E in \in SeedInputs : RefineCall(in)

SpecSeed == InitSeed /\ [][NextSeed]_vars

\* C4 (as the spec states it): a call with the arguments of the first call uses
\* the seed the first call used and returns the scores it returned, whichever
\* process makes either call.
C4_SameFixtureSameScoreline ==
    (probe_out # NoCall /\ probe_out.args = probe_first.args) =>
        /\ probe_out.seed = probe_first.seed
        /\ probe_out.scores = probe_first.scores

(***************************************************************************)
(* SpecStats: calculate_form_features and calculate_team_statistics called *)
(* with any form of five results and with squads of eleven ratings.        *)
(* probe_in is the argument of the last call, probe_out what it returned.  *)
(***************************************************************************)
\* every sequence of five results, each a loss, a draw or a win
StatForms == [1..NResults -> FormValues]

StatRatings == {MinRating, 63, 88, MaxRating}

\* squads of eleven ratings, in no particular order, with two or three
\* different ratings among them
StatSquads ==
    {[i \in 1..NPlayers |-> IF i % p = q THEN a ELSE b] :
        a \in StatRatings, b \in StatRatings, p \in 2..4, q \in 0..1}
    \cup {[i \in 1..NPlayers |-> <<a, b, c>>[((i * k) % 3) + 1]] :
            a \in StatRatings, b \in StatRatings, c \in StatRatings, k \in 1..2}
    \cup ValidSquads

InitStats ==
    /\ AgentIdle
    /\ engineer = NewFeatureEngineer
    /\ probe_in = NoCall
    /\ probe_first = NoCall
    /\ probe_out = NoCall

FormFeatures(recent_results) ==
    /\ probe_in' = recent_results
    /\ probe_out' = [op |-> "calculate_form_features",
                     outcome |-> calculate_form_features(recent_results)]
    /\ UNCHANGED <<engineer, probe_first>>
    /\ UNCHANGED agent_vars

TeamStatistics(player_ratings) ==
    /\ probe_in' = player_ratings
    /\ probe_out' = [op |-> "calculate_team_statistics",
                     outcome |-> Returned(calculate_team_statistics(player_ratings))]
    /\ UNCHANGED <<engineer, probe_first>>
    /\ UNCHANGED agent_vars

NextStats ==
    \/ \E recent_results \in StatForms : FormFeatures(recent_results)
    \/ \E player_ratings \in StatSquads : TeamStatistics(player_ratings)

SpecStats == InitStats /\ [][NextStats]_vars

\* the number of positions of s holding a value in vs
Holding(s, vs) == Cardinality({i \in DOMAIN s : s[i] \in vs})

\* C12: for every form of five results in {0, 1, 3}, calculate_form_features
\* returns total_points = the sum of the results, wins, draws and losses = the
\* number of 3s, 1s and 0s (so they add up to 5 and total_points = 3 * wins +
\* draws), win_rate = wins / 5, weighted_form = the results weighted by
\* 0.1, 0.15, 0.2, 0.25, 0.3 from the first to the last, and momentum = the mean
\* of the last two results minus the mean of the first three (to the nearest
\* thousandth); five wins give 15 points, 5 wins, no draws or losses, win_rate 1.
C12_FormFeatures ==
    (probe_out.op = "calculate_form_features" /\ probe_in \in StatForms) =>
        /\ probe_out.outcome.status = "returned"
        /\ LET r == probe_in
               f == probe_out.outcome.value
           IN  /\ Keys(f) = <<"total_points", "wins", "draws", "losses", "win_rate",
                              "weighted_form", "momentum">>
               /\ Get(f, "total_points") = (r[1] + r[2] + r[3] + r[4] + r[5]) * Milli
               /\ Get(f, "wins") = Holding(r, {3}) * Milli
               /\ Get(f, "draws") = Holding(r, {1}) * Milli
               /\ Get(f, "losses") = Holding(r, {0}) * Milli
               /\ Get(f, "wins") + Get(f, "draws") + Get(f, "losses") = 5 * Milli
               /\ Get(f, "total_points") = 3 * Get(f, "wins") + Get(f, "draws")
               /\ 5 * Get(f, "win_rate") = Get(f, "wins")
               /\ Get(f, "weighted_form") =
                    100 * r[1] + 150 * r[2] + 200 * r[3] + 250 * r[4] + 300 * r[5]
               /\ 2 * Abs(6 * Get(f, "momentum")
                          - (3 * (r[4] + r[5]) - 2 * (r[1] + r[2] + r[3])) * Milli) <= 6
               /\ r = <<3, 3, 3, 3, 3>> =>
                    /\ Get(f, "total_points") = 15 * Milli
                    /\ Get(f, "wins") = 5 * Milli
                    /\ Get(f, "draws") = 0
                    /\ Get(f, "losses") = 0
                    /\ Get(f, "win_rate") = Milli

\* The form loss, draw, win, win, draw has been summarised: rising momentum.
C12_Witness ==
    /\ probe_out.op = "calculate_form_features"
    /\ probe_in = <<0, 1, 3, 3, 1>>
    /\ probe_out.outcome.status = "returned"
    /\ Get(probe_out.outcome.value, "momentum") = 667
    /\ Get(probe_out.outcome.value, "weighted_form") = 1800

\* the sum of the ratings of s at the positions in idx
RECURSIVE SumAt(_, _)
SumAt(s, idx) ==
    IF idx = {} THEN 0
    ELSE LET i == CHOOSE j \in idx : TRUE IN s[i] + SumAt(s, idx \ {i})

\* three positions of s holding its three highest (sign 1) or lowest (sign -1)
\* ratings
Extreme3(s, sign) ==
    CHOOSE t \in SUBSET DOMAIN s :
        /\ Cardinality(t) = 3
        /\ \A i \in t : \A j \in DOMAIN s \ t : sign * s[i] >= sign * s[j]

\* C13: for every list of 11 ratings calculate_team_statistics returns their
\* mean, median, max, min, standard deviation, range = max - min, and the
\* averages of the three highest and the three lowest ratings (to the nearest
\* thousandth, the deviation to the nearest hundredth), with min <= bottom3_avg
\* <= median <= top3_avg <= max; eleven equal ratings v give
\* mean = median = max = min = top3_avg = bottom3_avg = v and std = range = 0.
C13_TeamStatistics ==
    (probe_out.op = "calculate_team_statistics" /\ Len(probe_in) = NPlayers) =>
        LET s    == probe_in
            f    == probe_out.outcome.value
            sum  == SumAt(s, DOMAIN s)
            dev  == NPlayers * SumAt([i \in DOMAIN s |-> s[i] * s[i]], DOMAIN s) - sum * sum
            root == RoundDiv(NPlayers * Get(f, "std_rating"), 100)
        IN  /\ probe_out.outcome.status = "returned"
            /\ Keys(f) = <<"mean_rating", "median_rating", "max_rating", "min_rating",
                           "std_rating", "rating_range", "top3_avg", "bottom3_avg">>
            /\ 2 * Abs(NPlayers * Get(f, "mean_rating") - sum * Milli) <= NPlayers
            /\ \E i \in DOMAIN s :
                  /\ Get(f, "median_rating") = s[i] * Milli
                  /\ 2 * Cardinality({j \in DOMAIN s : s[j] < s[i]}) < NPlayers
                  /\ 2 * Cardinality({j \in DOMAIN s : s[j] > s[i]}) < NPlayers
            /\ \E i \in DOMAIN s :
                  /\ Get(f, "max_rating") = s[i] * Milli
                  /\ \A j \in DOMAIN s : s[j] <= s[i]
            /\ \E i \in DOMAIN s :
                  /\ Get(f, "min_rating") = s[i] * Milli
                  /\ \A j \in DOMAIN s : s[j] >= s[i]
            /\ Get(f, "rating_range") = Get(f, "max_rating") - Get(f, "min_rating")
            /\ Get(f, "std_rating") >= 0
            /\ root * root <= 100 * dev
            /\ 100 * dev < (root + 1) * (root + 1)
            /\ 2 * Abs(3 * Get(f, "top3_avg") - SumAt(s, Extreme3(s, 1)) * Milli) <= 3
            /\ 2 * Abs(3 * Get(f, "bottom3_avg") - SumAt(s, Extreme3(s, -1)) * Milli) <= 3
            /\ Get(f, "min_rating") <= Get(f, "bottom3_avg")
            /\ Get(f, "bottom3_avg") <= Get(f, "median_rating")
            /\ Get(f, "median_rating") <= Get(f, "top3_avg")
            /\ Get(f, "top3_avg") <= Get(f, "max_rating")
            /\ (\A i \in DOMAIN s : s[i] = s[1]) =>
                  /\ \A k \in {"mean_rating", "median_rating", "max_rating",
                               "min_rating", "top3_avg", "bottom3_avg"} :
                        Get(f, k) = s[1] * Milli
                  /\ Get(f, "std_rating") = 0
                  /\ Get(f, "rating_range") = 0

\* The statistics of a squad of mixed ratings, given out of order, have been
\* returned: the median and the two averages all differ from max and min.
C13_Witness ==
    /\ probe_out.op = "calculate_team_statistics"
    /\ probe_in = CityXI
    /\ Get(probe_out.outcome.value, "median_rating") = 89 * Milli
    /\ Get(probe_out.outcome.value, "top3_avg") = 92 * Milli
    /\ Get(probe_out.outcome.value, "bottom3_avg") = 86667
    /\ Get(probe_out.outcome.value, "std_rating") > 0

(***************************************************************************)
(* SpecEvaluate: evaluate called on any trained trainer with a test set of *)
(* one to three matches.  probe_in holds the trainer and the test set,     *)
(* probe_out what evaluate did and the models' outputs it was given.       *)
(***************************************************************************)
MaxTestRows == 3

\* The matches a test set is made of, with the goals actually scored.
TestRows ==
    { MatchRow(CityXI, PoolXI, CityForm, PoolForm, 2, 1),
      MatchRow(PoolXI, FloorXI, PoolForm, CityForm, 3, 0),
      MatchRow(FloorXI, CityXI, PoolForm, PoolForm, 0, 2) }

TestSets == UNION {[1..n -> TestRows] : n \in 1..MaxTestRows}

\* The trainers train leaves fitted.
TrainedTrainers ==
    {t.self : t \in {r \in {train(NewTrainer(model_type), fitted, xgboost) :
                                model_type \in ModelTypes, fitted \in Fits,
                                xgboost \in BOOLEAN} :
                        r.outcome.status = "returned"}}

EvaluateInput(self, data) ==
    [trainer |-> self, X_test |-> data.outcome.value[1], y_test |-> data.outcome.value[2]]

EvaluateInputs ==
    {EvaluateInput(self, engineer_features_from_dataframe(NewFeatureEngineer, df)) :
        self \in TrainedTrainers, df \in TestSets}

InitEvaluate ==
    /\ AgentIdle
    /\ engineer = NewFeatureEngineer
    /\ probe_in \in EvaluateInputs
    /\ probe_first = NoCall
    /\ probe_out = NoCall

Evaluate ==
    LET r == evaluate(probe_in.trainer, probe_in.X_test, probe_in.y_test)
    IN  /\ probe_out' = [op |-> "evaluate", self |-> r.self, outcome |-> r.outcome,
                         model_outputs |-> ModelOutputs(probe_in.trainer, probe_in.X_test)]
        /\ UNCHANGED <<engineer, probe_in, probe_first>>
        /\ UNCHANGED agent_vars

NextEvaluate == Evaluate

SpecEvaluate == InitEvaluate /\ [][NextEvaluate]_vars

\* the mean of the outputs evaluate's models gave, before rounding and clipping
ContinuousPredictions ==
    Continuous(probe_out.model_outputs, Len(probe_out.model_outputs),
               DOMAIN probe_in.X_test.rows)

\* the goals predict returns for the test set: rounded and clipped to 0..8
RoundedPredictions == Thousandths(predict(probe_in.trainer, probe_in.X_test).value)

\* the metrics evaluate returned and stored are those of the predictions p
MetricsAreOf(p) ==
    /\ probe_out.outcome.status = "returned"
    /\ probe_out.self.metrics = probe_out.outcome.value
    /\ probe_out.outcome.value.mae =
          mean_absolute_error(probe_in.y_test, p, Len(probe_in.y_test))
    /\ probe_out.outcome.value.rmse =
          root_mean_squared_error(probe_in.y_test, p, Len(probe_in.y_test))
    /\ probe_out.outcome.value.r2 = r2_score(probe_in.y_test, p, Len(probe_in.y_test))

\* C15: evaluate computes MAE, RMSE and R2 against the actual goal counts from
\* the predictions predict returns, that is from the models' outputs after they
\* have been rounded to whole goals and clipped to 0..8.
C15_MetricsOfRoundedPredictions ==
    probe_out.op = "evaluate" => MetricsAreOf(RoundedPredictions)

\* C15 as stated: evaluate computes MAE, RMSE and R2 from the models' continuous
\* predictions, the raw outputs before rounding and clipping.
C15_MetricsOfContinuousPredictions ==
    probe_out.op = "evaluate" => MetricsAreOf(ContinuousPredictions)

\* An ensemble has been evaluated on three matches for which its averaged
\* outputs are not whole goals.
C15_Witness ==
    /\ probe_out.op = "evaluate"
    /\ probe_out.outcome.status = "returned"
    /\ probe_in.trainer.model_type = "ensemble"
    /\ Len(probe_in.y_test) = MaxTestRows
    /\ \A i \in DOMAIN ContinuousPredictions :
          ContinuousPredictions[i] # RoundedPredictions[i]
    /\ probe_out.outcome.value.mae # 0

(***************************************************************************)
(* SpecGenerate: FootballDataGenerator.generate_dataset, one pass of its   *)
(* loop at a time, whatever the random generator draws.  probe_in is the   *)
(* call (n_samples), probe_out the rows appended so far and, once the loop *)
(* has ended, the frame returned.                                          *)
(***************************************************************************)
\* np.clip(np.random.normal(mean_rating, std_rating, n_players), 50, 99),
\* given the normal draws
generate_player_ratings(draws) == [i \in DOMAIN draws |-> Clip(draws[i], MinRating, MaxRating)]

\* np.random.choice([3, 1, 0], size=5, p=...).tolist(), given the choices
generate_recent_form(choices) == [i \in DOMAIN choices |-> <<3, 1, 0>>[choices[i]]]

\* calculate_expected_goals in thousandths of a goal, the strengths in
\* thousandths, given the normal draw of the noise
calculate_expected_goals(team_strength, opponent_strength, recent_form_points, is_home, noise) ==
    Max(0, 1500 + RoundDiv((team_strength - opponent_strength) * 15, Milli)
             + (40 * recent_form_points - 300)
             + (IF is_home THEN 300 ELSE 0)
             + noise)

\* generate_match_result without the cap.
generate_match_result_Uncapped(expected_goals, draw) ==
    IF expected_goals = 0 THEN 0 ELSE draw

\* min(np.random.poisson(expected_goals), 8), given the Poisson draw; a
\* Poisson variable of mean 0 is 0
generate_match_result(expected_goals, draw) ==
    Min(IF expected_goals = 0 THEN 0 ELSE draw, MaxGoals)

\* Lines 124-152 of the loop body, given the squads and the forms drawn.
GeneratedRow(home_players, away_players, home_form, away_form, d) ==
    MatchRow(home_players, away_players, home_form, away_form,
             generate_match_result(
                 calculate_expected_goals(MeanRating(home_players), MeanRating(away_players),
                                          SumSeq(home_form), TRUE, d.noise[1]),
                 d.poisson[1]),
             generate_match_result(
                 calculate_expected_goals(MeanRating(away_players), MeanRating(home_players),
                                          SumSeq(away_form), FALSE, d.noise[2]),
                 d.poisson[2]))

\* Lines 113-152: one pass of the loop, given its draws.
LoopBody(d) ==
    GeneratedRow(generate_player_ratings(d.ratings[1]), generate_player_ratings(d.ratings[2]),
                 generate_recent_form(d.form[1]), generate_recent_form(d.form[2]), d)

MaxDataset == 2

\* What the random generator can draw for one row: normal draws for the two
\* squads (some beyond 50 and 99), the choices of the two forms, the two noise
\* draws and the two Poisson draws (some beyond 8).
RatingDraws ==
    { <<CityXI, PoolXI>>,
      <<Rep(NPlayers, 104), <<31, 49, 50, 51, 75, 98, 99, 100, 127, 63, 88>> >> }

FormDraws == { <<<<1, 2, 3, 1, 2>>, <<3, 3, 3, 3, 3>> >>, <<<<1, 1, 1, 1, 1>>, <<2, 1, 3, 3, 2>> >> }

NoiseDraws == { <<120, -85>>, <<-2600, 410>> }

PoissonDraws == { <<0, 3>>, <<11, 1>>, <<8, 9>> }

RowDraws ==
    [ratings : RatingDraws, form : FormDraws, noise : NoiseDraws, poisson : PoissonDraws]

InitGenerate ==
    /\ AgentIdle
    /\ engineer = NewFeatureEngineer
    /\ probe_in = NoCall
    /\ probe_first = NoCall
    /\ probe_out = NoCall

\* generate_dataset is called: data = []
GenerateDataset(n_samples) ==
    /\ probe_in = NoCall
    /\ probe_in' = [op |-> "generate_dataset", n_samples |-> n_samples]
    /\ probe_out' = [op |-> "loop", data |-> <<>>]
    /\ UNCHANGED <<engineer, probe_first>>
    /\ UNCHANGED agent_vars

\* one pass of the loop: data.append(match_data)
GenerateRow(d) ==
    /\ probe_in # NoCall
    /\ probe_out.op = "loop"
    /\ Len(probe_out.data) < probe_in.n_samples
    /\ probe_out' = [probe_out EXCEPT !.data = Append(@, LoopBody(d))]
    /\ UNCHANGED <<engineer, probe_in, probe_first>>
    /\ UNCHANGED agent_vars

\* the loop has ended: return pd.DataFrame(data)
ReturnDataset ==
    /\ probe_in # NoCall
    /\ probe_out.op = "loop"
    /\ Len(probe_out.data) = probe_in.n_samples
    /\ probe_out' = [op |-> "returned", data |-> probe_out.data]
    /\ UNCHANGED <<engineer, probe_in, probe_first>>
    /\ UNCHANGED agent_vars

NextGenerate ==
    \/ \E n_samples \in 0..MaxDataset : GenerateDataset(n_samples)
    \/ \E d \in RowDraws : GenerateRow(d)
    \/ ReturnDataset

SpecGenerate == InitGenerate /\ [][NextGenerate]_vars

\* C16: every row generate_dataset produces, for any n_samples and whatever is
\* drawn, has 11 ratings a side, each in [50,99], 5 form values a side, each in
\* {0,1,3}, and two whole goal counts in [0,8]; so the squads and forms of every
\* row pass predict_match's validation.  The frame returned has n_samples rows.
C16_GeneratedRowsAreValid ==
    probe_out # NoCall =>
        /\ \A i \in DOMAIN probe_out.data :
              LET row == probe_out.data[i]
              IN  /\ Len(row.home_players) = 11 /\ Len(row.away_players) = 11
                  /\ \A j \in 1..11 : /\ 50 <= row.home_players[j] /\ row.home_players[j] <= 99
                                      /\ 50 <= row.away_players[j] /\ row.away_players[j] <= 99
                  /\ Len(row.home_form) = 5 /\ Len(row.away_form) = 5
                  /\ \A j \in 1..5 : row.home_form[j] \in {0, 1, 3} /\ row.away_form[j] \in {0, 1, 3}
                  /\ row.home_goals \in 0..8 /\ row.away_goals \in 0..8
                  /\ _validate_inputs(row.home_players, row.away_players,
                                      row.home_form, row.away_form) = Returned("None")
        /\ probe_out.op = "returned" => Len(probe_out.data) = probe_in.n_samples

\* A dataset of two rows has been returned whose first row was drawn with
\* ratings beyond both ends of the range and a Poisson draw beyond 8, and whose
\* second row was left without a home goal by the noise.
C16_Witness ==
    /\ probe_out # NoCall /\ probe_out.op = "returned"
    /\ Len(probe_out.data) = 2
    /\ probe_out.data[1].home_players = Rep(NPlayers, 99)
    /\ probe_out.data[1].away_players[1] = 50
    /\ probe_out.data[1].home_goals = 8
    /\ probe_out.data[2].home_goals = 0
    /\ probe_out.data[2].away_goals = 8

(***************************************************************************)
(* SpecConcurrent: inference calls made on one shared agent by threads     *)
(* that take their steps in any order (main.py's handlers are plain        *)
(* functions, which the server runs in a pool of threads).  A call reads   *)
(* the agent's attributes at the statement that uses them.  probe_in[t] is *)
(* the call thread t is making, probe_out[t] its position and locals.      *)
(* model_file is the file the agent was constructed from.                  *)
(***************************************************************************)
NThreads == 2

Threads == 1..NThreads

Idle == [pc |-> "idle"]

\* The trainer train_model leaves in the agent, given what prepare_data did.
TrainedBy(prepared, fitted) ==
    evaluate(train(prepared.self, fitted, FALSE).self,
             prepared.outcome.value.X_test, prepared.outcome.value.y_test).self

\* The trainers the shared agent may hold: none, or a fitted ensemble.
SharedTrainers ==
    {NoTrainer} \cup {TrainedBy(prepare_data(NewTrainer("ensemble"), 2), fitted) :
                        fitted \in Fits}

ConcurrentCalls ==
    {[op |-> "predict_match", matches |-> <<[players |-> m, match_id |-> "None"]>>] :
        m \in {Match(CityXI, PoolXI, CityForm, PoolForm),
               Match(PoolXI, FloorXI, PoolForm, CityForm),
               Match(CityXI, PoolXI, CityForm, <<3, 3, 2, 3, 3>>)}}
    \cup {[op |-> "predict_match_detailed", home_team_name |-> <<65, 82, 83>>,
           away_team_name |-> <<67, 72, 69>>,
           matches |-> <<[players |-> Match(CityXI, PoolXI, CityForm, PoolForm),
                          match_id |-> "None"]>>]}
    \cup {[op |-> "batch_predict", matches |-> ms] :
            ms \in {b \in Batches : Len(b) = MaxBatch /\ b[1].match_id = "m1"}}

InitConcurrent ==
    /\ trainer \in SharedTrainers
    /\ feature_engineer = IF trainer = NoTrainer THEN NewFeatureEngineer
                          ELSE trainer.feature_engineer
    /\ model_file = IF trainer = NoTrainer THEN NoFile ELSE save_model(trainer)
    /\ hash_seed \in HashKeys
    /\ xgboost_available = FALSE
    /\ call = NoCall
    /\ engineer = NewFeatureEngineer
    /\ probe_first = NoCall
    /\ probe_in = [t \in Threads |-> NoCall]
    /\ probe_out = [t \in Threads |-> Idle]

\* the locals of a call that has ended
Ended(result) == [pc |-> "done", result |-> result]

\* the locals of a call about to call predict_match for the head of todo
Calling(todo, predictions) ==
    [pc |-> "validate", todo |-> todo, predictions |-> predictions]

\* Where a call stands when its predict_match has ended with run.
AfterMatch(c, local, run) ==
    IF c.op = "predict_match" THEN Ended(run)
    ELSE IF c.op = "predict_match_detailed"
    THEN IF run.outcome.status = "raised" THEN Ended(run)
         ELSE [pc |-> "refine", run |-> run]
    ELSE IF run.outcome.status = "raised" THEN Ended(run.outcome)
    ELSE IF Tail(local.todo) = <<>>
    THEN Ended(Returned(Append(local.predictions,
                    [match_id |-> Head(local.todo).match_id] @@ run.outcome.value)))
    ELSE Calling(Tail(local.todo),
                 Append(local.predictions,
                        [match_id |-> Head(local.todo).match_id] @@ run.outcome.value))

Stays == UNCHANGED <<model_file, hash_seed, xgboost_available, call, engineer, probe_first>>

\* a thread starts a call
Begin(t, c) ==
    /\ probe_in[t] = NoCall
    /\ probe_in' = [probe_in EXCEPT ![t] = c]
    /\ probe_out' = [probe_out EXCEPT ![t] =
                        IF c.matches = <<>> THEN Ended(Returned(<<>>))
                        ELSE Calling(c.matches, <<>>)]
    /\ UNCHANGED <<trainer, feature_engineer>>
    /\ Stays

\* predict_match, lines 99-100
StepValidate(t, m) ==
    /\ probe_out[t].pc = "validate"
    /\ LET checked == _validate_inputs(m.home_players, m.away_players,
                                       m.home_form, m.away_form)
       IN  probe_out' = [probe_out EXCEPT ![t] =
              IF checked.status = "raised"
              THEN AfterMatch(probe_in[t], probe_out[t], Run(checked, FALSE, <<>>, <<>>))
              ELSE [probe_out[t] EXCEPT !.pc = "trainer"]]
    /\ UNCHANGED <<trainer, feature_engineer, probe_in>>
    /\ Stays

\* predict_match, lines 102-103: self.trainer is read
StepTrainer(t) ==
    /\ probe_out[t].pc = "trainer"
    /\ probe_out' = [probe_out EXCEPT ![t] =
          IF trainer = NoTrainer
          THEN AfterMatch(probe_in[t], probe_out[t],
                   Run(Raised("ValueError",
                              "No model loaded. Please train or load a model first.", 0),
                       FALSE, <<>>, <<>>))
          ELSE [probe_out[t] EXCEPT !.pc = "features"]]
    /\ UNCHANGED <<trainer, feature_engineer, probe_in>>
    /\ Stays

\* predict_match, lines 106-111: self.feature_engineer, the object the trainer
\* holds too, is read and is left as the method leaves it
StepFeatures(t, r) ==
    /\ probe_out[t].pc = "features"
    /\ feature_engineer' = r.self
    /\ trainer' = [trainer EXCEPT !.feature_engineer = r.self]
    /\ probe_out' = [probe_out EXCEPT ![t] =
          IF r.outcome.status = "raised"
          THEN AfterMatch(probe_in[t], probe_out[t], Run(r.outcome, FALSE, <<>>, <<>>))
          ELSE [pc |-> "predict", todo |-> probe_out[t].todo,
                predictions |-> probe_out[t].predictions, features |-> r.outcome.value]]
    /\ UNCHANGED probe_in
    /\ Stays

\* predict_match, lines 114-146: self.trainer is read again
StepPredict(t, m) ==
    /\ probe_out[t].pc = "predict"
    /\ probe_out' = [probe_out EXCEPT ![t] =
          AfterMatch(probe_in[t], probe_out[t],
                     Predicted(trainer, m, probe_out[t].features,
                               predict(trainer, probe_out[t].features)))]
    /\ UNCHANGED <<trainer, feature_engineer, probe_in>>
    /\ Stays

\* predict_match_detailed, lines 179-280
StepRefine(t) ==
    /\ probe_out[t].pc = "refine"
    /\ probe_out' = [probe_out EXCEPT ![t] =
          Ended(DetailedFrom(hash_seed, probe_in[t].home_team_name,
                             probe_in[t].away_team_name, probe_out[t].run))]
    /\ UNCHANGED <<trainer, feature_engineer, probe_in>>
    /\ Stays

\* the call returns (or raises) to its caller
StepReturn(t) ==
    /\ probe_out[t].pc = "done"
    /\ probe_in' = [probe_in EXCEPT ![t] = NoCall]
    /\ probe_out' = [probe_out EXCEPT ![t] = Idle]
    /\ UNCHANGED <<trainer, feature_engineer>>
    /\ Stays

\* the match of the predict_match call thread t is in
Current(t) == Head(probe_out[t].todo).players

NextConcurrent ==
    \E t \in Threads :
        \/ \E c \in ConcurrentCalls : Begin(t, c)
        \/ StepValidate(t, Current(t))
        \/ StepTrainer(t)
        \/ StepFeatures(t, engineer_features_from_raw(feature_engineer,
                               Current(t).home_players, Current(t).away_players,
                               Current(t).home_form, Current(t).away_form))
        \/ StepPredict(t, Current(t))
        \/ StepRefine(t)
        \/ StepReturn(t)

SpecConcurrent == InitConcurrent /\ [][NextConcurrent]_vars

\* the agent as it was constructed from model_file
ConstructedTrainer == IF model_file = NoFile THEN NoTrainer ELSE load_model(model_file)

ConstructedEngineer ==
    IF model_file = NoFile THEN NewFeatureEngineer ELSE model_file.feature_engineer

\* what the call c gives when it runs alone, from its first statement to its
\* last, on the agent as constructed
Alone(c) ==
    IF c.op = "predict_match"
    THEN predict_match(ConstructedTrainer, ConstructedEngineer, c.matches[1].players)
    ELSE IF c.op = "predict_match_detailed"
    THEN predict_match_detailed(ConstructedTrainer, ConstructedEngineer, hash_seed,
                                c.home_team_name, c.away_team_name, c.matches[1].players)
    ELSE batch_predict(ConstructedTrainer, ConstructedEngineer, c.matches)

\* C18: predict_match, predict_match_detailed and batch_predict never modify the
\* agent's trainer, its fitted models, its feature engineer or the recorded
\* feature names; and however the steps of concurrent inference calls on one
\* shared agent interleave, every call ends with the result (or the exception)
\* it gives when it runs alone.
C18_ConcurrentInferenceAsAlone ==
    /\ trainer = ConstructedTrainer
    /\ feature_engineer = ConstructedEngineer
    /\ trainer # NoTrainer => trainer.feature_engineer = ConstructedEngineer
    /\ \A t \in Threads :
          probe_out[t].pc = "done" => probe_out[t].result = Alone(probe_in[t])

\* A predict_match call has returned a prediction while the other thread's
\* predict_match_detailed, started on the same agent, has its raw prediction and
\* has not yet refined it.
C18_Witness ==
    \E t \in Threads : \E u \in Threads \ {t} :
        /\ probe_out[t].pc = "done"
        /\ probe_in[t].op = "predict_match"
        /\ probe_out[t].result.outcome.status = "returned"
        /\ probe_in[u].op = "predict_match_detailed"
        /\ probe_out[u].pc = "refine"

(***************************************************************************)
(* main.py: the /predict handler and what it calls.  A dict is a function  *)
(* on the keys present; a name is a sequence of character codes.           *)
(***************************************************************************)
\* dict.get(k, default)
DictGet(d, k, default) == IF k \in DOMAIN d THEN d[k] ELSE default

\* str.lower()
Lower(s) == [i \in DOMAIN s |-> IF s[i] \in 65..90 THEN s[i] + 32 ELSE s[i]]

\* str.replace(old, "")
RECURSIVE Removed(_, _)
Removed(s, old) ==
    IF Len(s) < Len(old) THEN s
    ELSE IF SubSeq(s, 1, Len(old)) = old
    THEN Removed(SubSeq(s, Len(old) + 1, Len(s)), old)
    ELSE <<Head(s)>> \o Removed(Tail(s), old)

\* " ".join(s.split()), which also does what strip() did: out is the text joined
\* so far, gap whether a blank separates it from the next word
RECURSIVE JoinSplit(_, _, _)
JoinSplit(s, out, gap) ==
    IF s = <<>> THEN out
    ELSE IF Head(s) = 32 THEN JoinSplit(Tail(s), out, out # <<>>)
    ELSE JoinSplit(Tail(s), (IF gap THEN Append(out, 32) ELSE out) \o <<Head(s)>>, FALSE)

\* name.lower().replace("fc", "").replace("afc", "").strip(), blanks collapsed
_normalize_team_key(name) ==
    JoinSplit(Removed(Removed(Lower(name), <<102, 99>>), <<97, 102, 99>>), <<>>, FALSE)

\* "arsenal", "chelsea"
Arsenal == <<97, 114, 115, 101, 110, 97, 108>>

Chelsea == <<99, 104, 101, 108, 115, 101, 97>>

\* TEAM_STRENGTHS and TEAM_FORM: the entries of the teams the payloads name
TEAM_STRENGTHS == (Arsenal :> 87) @@ (Chelsea :> 84)

TEAM_FORM == (Arsenal :> <<3, 3, 1, 3, 3>>) @@ (Chelsea :> <<3, 3, 3, 0, 1>>)

\* rng.normal(loc=base_rating, scale=3.2, size=11), clipped to [65, 95] (and
\* rounded to whole ratings here, to one decimal in the source); the draws
\* follow from the seed alone
ProfilePlayers(base_rating, stream) ==
    [i \in 1..NPlayers |->
        Clip(base_rating + RoundDiv(Normal(3200, stream[((i - 1) % Len(stream)) + 1]), Milli),
             65, 95)]

\* _build_team_profile, given the normalised key: <<players, form>>
ProfileOf(hash_key, key) ==
    << ProfilePlayers(DictGet(TEAM_STRENGTHS, key, 76),
                      default_rng(Abs(hash(hash_key, key)) % (2 ^ SeedBits))),
       DictGet(TEAM_FORM, key, <<1, 1, 1, 1, 1>>) >>

_build_team_profile(hash_key, team_name) == ProfileOf(hash_key, _normalize_team_key(team_name))

\* a / total in millionths, digit by digit: the n decimals of r / t that remain
RECURSIVE Decimals(_, _, _)
Decimals(r, t, n) ==
    IF n = 0 THEN (IF 2 * r >= t THEN 1 ELSE 0)
    ELSE ((10 * r) \div t) * (10 ^ (n - 1)) + Decimals((10 * r) % t, t, n - 1)

\* a / total for total > 0, in millionths
Quotient(a, total) ==
    Sign(a) * ((Abs(a) \div total) * 1000000 + Decimals(Abs(a) % total, total, 6))

\* Values of any type, as _normalize_prediction_output tells them apart.
None == [type |-> "NoneType"]

Str(s) == [type |-> "str", text |-> s]

Dict(d) == [type |-> "dict", value |-> d]

\* result.lower() of the strings passed
StrLower(s) ==
    IF s \in {"Home", "HOME", "home"} THEN "home"
    ELSE IF s \in {"Away", "away"} THEN "away"
    ELSE IF s \in {"DRAW", "draw"} THEN "draw"
    ELSE s

\* the fallback returned for a result that is empty, a string or no dict
Fallback(suggested) ==
    [probs |-> [home_win |-> 340000, draw |-> 330000, away_win |-> 330000],
     suggested |-> suggested]

\* An output that carries nothing over from the result.
Kept_Nothing(result, k) == <<>>

\* the entry of key k when result has it, to be merged into the output
Kept(result, k) == IF k \in DOMAIN result THEN k :> result[k] ELSE <<>>

\* Lines 142-162, given the three numbers and their total after lines 137-140
NormalizedDict(result, home, draw, away, total) ==
    [probs |-> [home_win |-> Quotient(home, total), draw |-> Quotient(draw, total),
                away_win |-> Quotient(away, total)],
     suggested |-> IF "suggested" \in DOMAIN result /\ result.suggested # ""
                   THEN result.suggested
                   ELSE Suggested(<<Quotient(home, total), Quotient(draw, total),
                                    Quotient(away, total)>>)]
    @@ Kept(result, "home_score") @@ Kept(result, "away_score") @@ Kept(result, "report")

\* Lines 128-140: the numbers read, in millionths, and the total
FromDict(result, home, draw, away) ==
    IF home + draw + away <= 0
    THEN NormalizedDict(result, 340000, 330000, 330000, 1000000)
    ELSE NormalizedDict(result, home, draw, away, home + draw + away)

_normalize_prediction_output(result) ==
    IF result.type = "NoneType" THEN Fallback("home")
    ELSE IF result.type = "str"
    THEN IF result.text = "" THEN Fallback("home")
         ELSE Fallback(IF StrLower(result.text) \in {"home", "away", "draw"}
                       THEN StrLower(result.text) ELSE "home")
    ELSE IF result.type = "dict"
    THEN IF DOMAIN result.value = {} THEN Fallback("home")
         ELSE FromDict(result.value,
                       DictGet(result.value, "home_win",
                               DictGet(result.value, "home", 340000)),
                       DictGet(result.value, "draw", 330000),
                       DictGet(result.value, "away_win",
                               DictGet(result.value, "away", 330000)))
    ELSE Fallback("home")

\* Lines 56-72 and 82-89: the arguments predict_match_detailed is called with,
\* or the KeyError of the first key a detailed payload lacks, or neither mode.
DetailedKeys ==
    <<"home_team_name", "away_team_name", "home_team_players", "away_team_players",
      "home_last_5_results", "away_last_5_results">>

PredictArgs(hash_key, data) ==
    IF "home_team" \in DOMAIN data /\ "away_team" \in DOMAIN data
    THEN Returned(
           [home_team_name |-> data.home_team, away_team_name |-> data.away_team,
            m |-> Match(DictGet(data, "home_team_players",
                                _build_team_profile(hash_key, data.home_team)[1]),
                        DictGet(data, "away_team_players",
                                _build_team_profile(hash_key, data.away_team)[1]),
                        DictGet(data, "home_last_5_results",
                                _build_team_profile(hash_key, data.home_team)[2]),
                        DictGet(data, "away_last_5_results",
                                _build_team_profile(hash_key, data.away_team)[2]))])
    ELSE IF "home_team_name" \in DOMAIN data /\ "away_team_name" \in DOMAIN data
    THEN IF \E i \in DOMAIN DetailedKeys : DetailedKeys[i] \notin DOMAIN data
         THEN Raised("KeyError", "key not in data", FirstBad(DetailedKeys, DOMAIN data))
         ELSE Returned(
                [home_team_name |-> data.home_team_name,
                 away_team_name |-> data.away_team_name,
                 m |-> Match(data.home_team_players, data.away_team_players,
                             data.home_last_5_results, data.away_last_5_results)])
    ELSE [status |-> "neither"]

\* Lines 74-78 and 91-95: an exception of predict_match_detailed leaves the
\* handler; the dict it returns is never empty, and is normalised
Responded(run) ==
    IF run.outcome.status = "raised" THEN run.outcome
    ELSE Returned(_normalize_prediction_output(Dict(run.outcome.value)))

WithArgs(self_trainer, self_feature_engineer, hash_key, a) ==
    IF a.status = "neither" THEN Returned([error |-> "Invalid payload"])
    ELSE IF a.status = "raised" THEN a
    ELSE Responded(predict_match_detailed(self_trainer, self_feature_engineer, hash_key,
                                          a.value.home_team_name, a.value.away_team_name,
                                          a.value.m))

\* @app.post("/predict") predict_match(data): what the handler returns, or the
\* exception that leaves it (answered by the server with status 500)
main_predict_match(self_trainer, self_feature_engineer, hash_key, data) ==
    WithArgs(self_trainer, self_feature_engineer, hash_key, PredictArgs(hash_key, data))

(***************************************************************************)
(* SpecApi: the /predict handler of a server whose agent holds a fitted    *)
(* model, called with any payload.  call holds the last request and what   *)
(* the handler did with it.                                                *)
(***************************************************************************)
\* "Arsenal", "Chelsea FC", "ARS", "CHE"
PayloadNames ==
    {<<65, 114, 115, 101, 110, 97, 108>>, <<67, 104, 101, 108, 115, 101, 97, 32, 70, 67>>,
     <<65, 82, 83>>, <<67, 72, 69>>}

SimplePayloads == {[home_team |-> h, away_team |-> a] : h \in PayloadNames, a \in PayloadNames}

\* Simple payloads that override what the team profile would give.
OverridePayloads ==
    {[home_team |-> <<65, 82, 83>>, away_team |-> <<67, 72, 69>>, home_team_players |-> hp] :
        hp \in {PoolXI, Rep(NPlayers - 1, 75), [CityXI EXCEPT ![1] = MaxRating + 5]}}
    \cup {[home_team |-> <<65, 82, 83>>, away_team |-> <<67, 72, 69>>,
           away_team_players |-> ap] : ap \in {FloorXI, Rep(NPlayers + 1, 75)}}
    \cup {[home_team |-> <<65, 82, 83>>, away_team |-> <<67, 72, 69>>,
           home_last_5_results |-> hf] :
            hf \in {PoolForm, <<3, 3, 2, 3, 3>>, Rep(NResults - 1, 1)}}
    \cup {[home_team |-> <<65, 82, 83>>, away_team |-> <<67, 72, 69>>,
           home_team_players |-> CityXI, away_team_players |-> PoolXI,
           home_last_5_results |-> CityForm, away_last_5_results |-> PoolForm]}

DetailedPayloads ==
    {[home_team_name |-> <<65, 82, 83>>, away_team_name |-> <<67, 72, 69>>,
      home_team_players |-> hp, away_team_players |-> PoolXI,
      home_last_5_results |-> CityForm, away_last_5_results |-> PoolForm] :
        hp \in {CityXI, Rep(NPlayers - 1, 75)}}
    \cup {[home_team_name |-> <<65, 82, 83>>, away_team_name |-> <<67, 72, 69>>],
          [home_team_name |-> <<65, 82, 83>>, away_team_name |-> <<67, 72, 69>>,
           home_team_players |-> CityXI, away_team_players |-> PoolXI]}

OtherPayloads == {<<>>, [home_team |-> <<65, 82, 83>>], [fixture |-> 7]}

Payloads == SimplePayloads \cup OverridePayloads \cup DetailedPayloads \cup OtherPayloads

\* main.py lines 34-40: the agent loads its model or trains one
InitApi ==
    /\ trainer \in SharedTrainers \ {NoTrainer}
    /\ feature_engineer = trainer.feature_engineer
    /\ model_file = save_model(trainer)
    /\ hash_seed \in HashKeys
    /\ xgboost_available = FALSE
    /\ call = NoCall
    /\ engineer = NewFeatureEngineer
    /\ probe_in = NoCall
    /\ probe_first = NoCall
    /\ probe_out = NoCall

PostPredict(data) ==
    /\ call' = [op |-> "/predict", data |-> data,
                response |-> main_predict_match(trainer, feature_engineer, hash_seed, data)]
    /\ UNCHANGED <<trainer, feature_engineer, model_file, hash_seed, xgboost_available>>
    /\ UNCHANGED probe_vars

NextApi == \E data \in Payloads : PostPredict(data)

SpecApi == InitApi /\ [][NextApi]_vars

\* the response has the shape {probs: {home_win, draw, away_win}, suggested}
ShapedResponse(response) ==
    /\ response.status = "returned"
    /\ {"probs", "suggested"} \subseteq DOMAIN response.value
    /\ DOMAIN response.value.probs = {"home_win", "draw", "away_win"}
    /\ response.value.suggested \in {"home", "draw", "away"}

\* C19: for every simple-mode payload (one with home_team and away_team, with
\* or without overrides of the ratings and the form), the /predict handler
\* returns a response of the shape {probs: {home_win, draw, away_win},
\* suggested}; it never ends without one.
C19_SimpleModeAlwaysResponds ==
    (call.op = "/predict" /\ {"home_team", "away_team"} \subseteq DOMAIN call.data) =>
        ShapedResponse(call.response)

(***************************************************************************)
(* SpecNormalize: _normalize_prediction_output called with any result.     *)
(* probe_in is the result passed, probe_out what was returned.  Numbers    *)
(* are in millionths.                                                      *)
(***************************************************************************)
ProbabilityEntries == {-500000, 0, 340000, 1040000}

\* The dicts passed: the three entries under their usual keys, under the keys
\* home and away, some of them missing, and with the further entries a
\* prediction carries.
ResultDicts ==
    {[home_win |-> h, draw |-> d, away_win |-> a] :
        h \in ProbabilityEntries, d \in ProbabilityEntries, a \in ProbabilityEntries}
    \cup {[home |-> h, draw |-> 200000, away |-> 200000] : h \in {0, 600000}}
    \cup {[home_win |-> 900000], [draw |-> 0], [suggested |-> "draw"]}
    \cup {[home_win |-> h, draw |-> 260000, away_win |-> 370000, suggested |-> s,
           home_score |-> 2, away_score |-> 1, report |-> "ARS 2-1 CHE"] :
            h \in {370000, 410000}, s \in {"", "away"}}
    \cup {[home_win |-> 370000, draw |-> 260000, away_win |-> 370000, home_score |-> 0],
          <<>>}

NormalizeInputs ==
    {Dict(d) : d \in ResultDicts} \cup {None, Str(""), Str("Home"), Str("DRAW"), Str("maybe")}

InitNormalize ==
    /\ AgentIdle
    /\ engineer = NewFeatureEngineer
    /\ probe_in \in NormalizeInputs
    /\ probe_first = NoCall
    /\ probe_out = NoCall

NormalizeOutput ==
    /\ probe_out' = [op |-> "_normalize_prediction_output",
                     value |-> _normalize_prediction_output(probe_in)]
    /\ UNCHANGED <<engineer, probe_in, probe_first>>
    /\ UNCHANGED agent_vars

NextNormalize == NormalizeOutput

SpecNormalize == InitNormalize /\ [][NextNormalize]_vars

\* the number the normaliser reads for an outcome: the entry under key, else the
\* one under other, else the default
Entry(d, key, other, default) ==
    IF key \in DOMAIN d THEN d[key] ELSE IF other \in DOMAIN d THEN d[other] ELSE default

\* p is a / total to the nearest millionth, a and total being whole hundredths
IsQuotient(p, a, total) ==
    /\ total % 10000 = 0 /\ a % 10000 = 0
    /\ 2 * Abs(p * (total \div 10000) - a * 100) <= total \div 10000

\* C20: for every dict result whose probability entries are numbers,
\* _normalize_prediction_output returns probs that sum to 1 (to the millionth):
\* each entry read, or its default, divided by their total when the total is
\* positive, and 0.34, 0.33, 0.33 when the total is <= 0; home_score, away_score
\* and report are in the output, unchanged, exactly when they are in the result.
C20_NormalizedProbabilities ==
    (probe_out # NoCall /\ probe_in.type = "dict" /\ DOMAIN probe_in.value # {}) =>
        LET d     == probe_in.value
            home  == Entry(d, "home_win", "home", 340000)
            draw  == Entry(d, "draw", "draw", 330000)
            away  == Entry(d, "away_win", "away", 330000)
            out   == probe_out.value
        IN  /\ DOMAIN out.probs = {"home_win", "draw", "away_win"}
            /\ Abs(out.probs.home_win + out.probs.draw + out.probs.away_win - 1000000) <= 2
            /\ home + draw + away > 0 =>
                  /\ IsQuotient(out.probs.home_win, home, home + draw + away)
                  /\ IsQuotient(out.probs.draw, draw, home + draw + away)
                  /\ IsQuotient(out.probs.away_win, away, home + draw + away)
            /\ home + draw + away <= 0 =>
                  out.probs = [home_win |-> 340000, draw |-> 330000, away_win |-> 330000]
            /\ \A k \in {"home_score", "away_score", "report"} :
                  /\ k \in DOMAIN d => (k \in DOMAIN out /\ out[k] = d[k])
                  /\ k \notin DOMAIN d => k \notin DOMAIN out

\* A result whose entries add up to 1.04 and which carries a scoreline and a
\* report has been normalised.
C20_Witness ==
    /\ probe_out # NoCall /\ probe_in.type = "dict"
    /\ DOMAIN probe_in.value =
          {"home_win", "draw", "away_win", "suggested", "home_score", "away_score", "report"}
    /\ probe_in.value.home_win + probe_in.value.draw + probe_in.value.away_win = 1040000
    /\ probe_out.value.probs.home_win = 394231
    /\ probe_out.value.home_score = 2
    /\ probe_out.value.report = "ARS 2-1 CHE"

(***************************************************************************)
(* InteractivePredictor (interactive_predictor.py).  A handler of the menu *)
(* gives what it printed (the titles of the sections in shown, the values  *)
(* beside them) and how it ended.  The texts typed at a prompt are the     *)
(* ones the prompt's loop accepts, after strip().                          *)
(***************************************************************************)
\* Lines 181-213
_show_additional_insights(prediction) ==
    IF "result" \notin DOMAIN prediction
    THEN [shown |-> <<"BETTING INSIGHTS", "Prediction Summary">>,
          outcome |-> Raised("KeyError", "result", DOMAIN prediction)]
    ELSE [shown |-> <<"BETTING INSIGHTS", "Prediction Summary", "Betting Suggestions", "Note">>,
          insights |->
            [winner |-> prediction.result,
             total_goals |-> prediction.home_score + prediction.away_score,
             goal_difference |-> Abs(prediction.home_score - prediction.away_score),
             one_x_two |-> IF prediction.result \in {"Home Win", "Away Win"}
                           THEN prediction.result ELSE "Draw",
             over_under |-> IF prediction.home_score + prediction.away_score > 2
                            THEN "Over 2.5 goals" ELSE "Under 2.5 goals",
             both_teams_to_score |->
                prediction.home_score > 0 /\ prediction.away_score > 0],
          outcome |-> Returned(None)]

\* Lines 176-179, given the dict predict_match_detailed returned
Insights(prediction, insights) ==
    [insights EXCEPT !.shown = <<"MATCH PREDICTION", "prediction">> \o @]
        @@ [printed |-> prediction]

\* Lines 162-179, given what predict_match_detailed did
SingleFrom(run) ==
    IF run.outcome.status = "raised"
    THEN [shown |-> <<"MATCH PREDICTION">>, outcome |-> run.outcome]
    ELSE Insights(run.outcome.value, _show_additional_insights(run.outcome.value))

\* Lines 131-179.  m holds the ratings and the forms get_player_ratings and
\* get_recent_form returned for the two teams.
predict_single_match(self_trainer, self_feature_engineer, key, home_team, away_team, m) ==
    IF home_team = <<>> \/ away_team = <<>>
    THEN [shown |-> <<"MATCH PREDICTION", "Team names cannot be empty">>,
          outcome |-> Returned(None)]
    ELSE SingleFrom(predict_match_detailed(self_trainer, self_feature_engineer, key,
                                           home_team, away_team, m))

\* Lines 272-278: the lines printed for the matches and their predictions
ResultLines(matches, predictions) ==
    [i \in DOMAIN predictions |->
        [home_team |-> matches[i].home_team, away_team |-> matches[i].away_team,
         home_score |-> predictions[i].home_score,
         away_score |-> predictions[i].away_score,
         result |-> predictions[i].result,
         home_team_strength |-> predictions[i].home_team_strength,
         away_team_strength |-> predictions[i].away_team_strength,
         home_form_points |-> predictions[i].home_form_points,
         away_form_points |-> predictions[i].away_form_points]]

\* Lines 259-280, given what batch_predict did
MultipleFrom(matches, batch) ==
    IF batch.status = "raised"
    THEN [shown |-> <<"BATCH MATCH PREDICTION">>, outcome |-> batch]
    ELSE IF \E i \in DOMAIN batch.value : "result" \notin DOMAIN batch.value[i]
    THEN [shown |-> <<"BATCH MATCH PREDICTION", "PREDICTION RESULTS">>,
          outcome |-> Raised("KeyError", "result", DOMAIN batch.value)]
    ELSE [shown |-> <<"BATCH MATCH PREDICTION", "PREDICTION RESULTS">>,
          results |-> ResultLines(matches, batch.value),
          outcome |-> Returned(None)]

\* Lines 215-280, given the list of matches the prompts built
predict_multiple_matches(self_trainer, self_feature_engineer, matches) ==
    MultipleFrom(matches, batch_predict(self_trainer, self_feature_engineer, matches))

\* prediction_agent.py lines 392-402
get_model_info(self_trainer, self_feature_engineer) ==
    IF self_trainer = NoTrainer THEN [status |-> "No model loaded"]
    ELSE [status |-> "Model loaded",
          model_type |-> self_trainer.model_type,
          metrics |-> self_trainer.metrics,
          features_count |-> Len(get_feature_names(self_feature_engineer))]

\* Lines 316-335
show_model_info(self_trainer, self_feature_engineer) ==
    IF self_trainer = NoTrainer
    THEN [shown |-> <<"MODEL INFORMATION">>,
          outcome |-> Raised("KeyError", "model_type", {"status"})]
    ELSE [shown |-> <<"MODEL INFORMATION">>,
          info |-> get_model_info(self_trainer, self_feature_engineer),
          outcome |-> Returned(None)]

(***************************************************************************)
(* SpecMenu: interactive_predictor.main().  The constructor has loaded or  *)
(* trained the agent's model; each step is one pass of the loop of run(),  *)
(* from the choice typed at the main menu to the next prompt of the menu   *)
(* or to the end of the process.  call holds where the program is, the     *)
(* last choice, what was typed after it and what its handler did.          *)
(***************************************************************************)
\* What the prompts of a match return: a name (possibly empty) per team, and
\* ratings and forms that get_player_ratings and get_recent_form accepted or
\* fetched
MenuNames == {<<>>} \cup TeamNames

MenuMatches ==
    {Match(hp, ap, hf, af) :
        hp \in {CityXI, FloorXI}, ap \in {PoolXI}, hf \in ValidForms, af \in {PoolForm}}

\* Lines 22-51 and 341
InitMenu ==
    /\ trainer \in SharedTrainers \ {NoTrainer}
    /\ feature_engineer = trainer.feature_engineer
    /\ model_file = save_model(trainer)
    /\ hash_seed \in HashKeys
    /\ xgboost_available = FALSE
    /\ call = [op |-> "run", at |-> "menu"]
    /\ engineer = NewFeatureEngineer
    /\ probe_in = NoCall
    /\ probe_first = NoCall
    /\ probe_out = NoCall

\* Lines 284-314 and 343-350: after the handler of a choice, the loop prompts
\* again; an exception of the handler leaves run() and ends main() with
\* sys.exit(1)
AfterHandler(choice, typed, handler) ==
    IF handler.outcome.status = "raised"
    THEN [op |-> "run", at |-> "ended", how |-> "Exception", code |-> 1,
          choice |-> choice, typed |-> typed, handler |-> handler]
    ELSE [op |-> "run", at |-> "menu",
          choice |-> choice, typed |-> typed, handler |-> handler]

MenuStays == UNCHANGED <<trainer, feature_engineer, model_file, hash_seed, xgboost_available, engineer, probe_in, probe_first, probe_out>>

\* Lines 295-300
MenuSingle(home_team, away_team, auto_mode, m, another) ==
    /\ call.at = "menu"
    /\ call' = AfterHandler("1",
                  [home_team |-> home_team, away_team |-> away_team,
                   auto_mode |-> auto_mode, another |-> another],
                  predict_single_match(trainer, feature_engineer, hash_seed,
                                       home_team, away_team, m))
    /\ MenuStays

\* Lines 302-303, with one match asked for
MenuMultiple(home_team, away_team, m) ==
    /\ call.at = "menu"
    /\ call' = AfterHandler("2",
                  [home_team |-> home_team, away_team |-> away_team],
                  predict_multiple_matches(trainer, feature_engineer,
                      <<[match_id |-> "M001", players |-> m,
                         home_team |-> home_team, away_team |-> away_team]>>))
    /\ MenuStays

\* Lines 305-306
MenuInfo ==
    /\ call.at = "menu"
    /\ call' = AfterHandler("3", <<>>, show_model_info(trainer, feature_engineer))
    /\ MenuStays

\* Lines 308-311
MenuExit ==
    /\ call.at = "menu"
    /\ call' = [op |-> "run", at |-> "ended", how |-> "sys.exit", code |-> 0,
                choice |-> "4"]
    /\ MenuStays

\* Lines 313-314
MenuInvalid(choice) ==
    /\ call.at = "menu"
    /\ call' = [op |-> "run", at |-> "menu", choice |-> choice,
                handler |-> [shown |-> <<"Invalid option. Please select 1-4.">>]]
    /\ MenuStays

\* Lines 343-345: Ctrl-C at a prompt
MenuInterrupt ==
    /\ call.at = "menu"
    /\ call' = [op |-> "run", at |-> "ended", how |-> "KeyboardInterrupt", code |-> 0]
    /\ MenuStays

NextMenu ==
    \/ \E home_team \in MenuNames, away_team \in MenuNames, auto_mode \in BOOLEAN, m \in MenuMatches, another \in BOOLEAN : MenuSingle(home_team, away_team, auto_mode, m, another)
    \/ \E home_team \in MenuNames, away_team \in MenuNames, m \in MenuMatches : MenuMultiple(home_team, away_team, m)
    \/ MenuInfo
    \/ MenuExit
    \/ \E choice \in {"", "5", "one"} : MenuInvalid(choice)
    \/ MenuInterrupt

SpecMenu == InitMenu /\ [][NextMenu]_vars

\* C21: in the loop of the main menu, option 1 with a single-match prediction
\* carried through (both names given, ratings and forms accepted) shows the
\* betting insights and comes back to the main menu; the program ends only
\* by option 4 or by an interruption.
C21_SingleMatchReturnsToMenu ==
    /\ (/\ "choice" \in DOMAIN call
        /\ call.choice = "1"
        /\ call.typed.home_team # <<>>
        /\ call.typed.away_team # <<>>) =>
            /\ call.at = "menu"
            /\ "insights" \in DOMAIN call.handler
    /\ call.at = "ended" => call.how \in {"sys.exit", "KeyboardInterrupt"}

(***************************************************************************)
(* HistoricalDataFetcher (historical_data_fetcher.py).  A date is the      *)
(* number of its day (ISO date strings of one format compare as their days *)
(* do), NoDate the empty string; a fixture of the API is the record of the *)
(* fields the code reads, NoGoals the null of a goals field.               *)
(***************************************************************************)
NoDate == 0

NoGoals == -1

\* goals.get('home') or 0
OrZero(g) == IF g = NoGoals THEN 0 ELSE g

\* Lines 194-216: the result of the fixture for the team
FixtureResult(fixture, team_id) ==
    IF fixture.home_id = team_id
    THEN IF OrZero(fixture.home) > OrZero(fixture.away) THEN 3
         ELSE IF OrZero(fixture.home) = OrZero(fixture.away) THEN 1 ELSE 0
    ELSE IF OrZero(fixture.away) > OrZero(fixture.home) THEN 3
         ELSE IF OrZero(fixture.away) = OrZero(fixture.home) THEN 1 ELSE 0

\* Lines 187-216
RECURSIVE FormLoop(_, _, _, _)
FormLoop(fixtures, team_id, before_date, form) ==
    IF fixtures = <<>> THEN form
    ELSE IF Head(fixtures).date # NoDate /\ Head(fixtures).date > before_date
    THEN FormLoop(Tail(fixtures), team_id, before_date, form)
    ELSE FormLoop(Tail(fixtures), team_id, before_date,
                  Append(form, FixtureResult(Head(fixtures), team_id)))

\* Lines 219-220
RECURSIVE PadFront(_)
PadFront(form) == IF Len(form) < 5 THEN PadFront(<<1>> \o form) ELSE form

\* Lines 165-222, given the list under 'response' of what _make_request
\* returned (empty when the request failed)
get_team_recent_form(fixtures, team_id, before_date) ==
    SubSeq(PadFront(FormLoop(fixtures, team_id, before_date, <<>>)), 1, 5)

(***************************************************************************)
(* SpecForm: get_team_recent_form called with any team, date and answer of *)
(* the API, alone or by fetch_training_data for the two teams of a league  *)
(* fixture.  probe_in holds the arguments and the API's fixtures,          *)
(* probe_out what was returned.                                            *)
(***************************************************************************)
MaxFixtures == 2

\* Finished fixtures as the API lists them, each with its date
ApiFixtures ==
    {[date |-> d, home_id |-> t[1], away_id |-> t[2], home |-> g[1], away |-> g[2]] :
        d \in {1, 2, 3}, t \in {<<1, 2>>, <<2, 1>>, <<2, 3>>},
        g \in {<<2, 1>>, <<0, 0>>, <<NoGoals, 3>>}}

\* The answers of the API: up to MaxFixtures fixtures, and three times as many
ApiResponses ==
    UNION {[1..n -> ApiFixtures] : n \in 0..MaxFixtures}
    \cup {s \o s \o s : s \in [1..MaxFixtures -> ApiFixtures]}

InitForm ==
    /\ trainer = NoTrainer
    /\ feature_engineer = NewFeatureEngineer
    /\ model_file = NoFile
    /\ hash_seed = 0
    /\ xgboost_available = FALSE
    /\ call = NoCall
    /\ engineer = NewFeatureEngineer
    /\ probe_in \in [fixtures : ApiResponses, team_id : {1, 2}, before_date : {2}]
    /\ probe_first = NoCall
    /\ probe_out = NoCall

GetTeamRecentForm ==
    /\ probe_out = NoCall
    /\ probe_out' = [op |-> "get_team_recent_form",
                     form |-> get_team_recent_form(probe_in.fixtures, probe_in.team_id,
                                                   probe_in.before_date)]
    /\ UNCHANGED <<engineer, probe_in, probe_first>>
    /\ UNCHANGED agent_vars

\* Lines 298-324: the forms fetch_training_data asks for the two teams of the
\* league fixture at the head of the API's list, with that fixture's date
FetchTrainingForms ==
    /\ probe_out = NoCall
    /\ probe_in.fixtures # <<>>
    /\ Head(probe_in.fixtures).date # NoDate
    /\ probe_out' = [op |-> "fetch_training_data",
                     match |-> Head(probe_in.fixtures),
                     home_form |-> get_team_recent_form(probe_in.fixtures,
                                        Head(probe_in.fixtures).home_id,
                                        Head(probe_in.fixtures).date),
                     away_form |-> get_team_recent_form(probe_in.fixtures,
                                        Head(probe_in.fixtures).away_id,
                                        Head(probe_in.fixtures).date)]
    /\ UNCHANGED <<engineer, probe_in, probe_first>>
    /\ UNCHANGED agent_vars

NextForm == GetTeamRecentForm \/ FetchTrainingForms

SpecForm == InitForm /\ [][NextForm]_vars

\* the fixtures of the list dated before the date
RECURSIVE DatedBefore(_, _)
DatedBefore(fixtures, before_date) ==
    IF fixtures = <<>> THEN <<>>
    ELSE IF Head(fixtures).date # NoDate /\ Head(fixtures).date < before_date
    THEN <<Head(fixtures)>> \o DatedBefore(Tail(fixtures), before_date)
    ELSE DatedBefore(Tail(fixtures), before_date)

\* the form is that of the fixtures dated before the date alone
FormOfEarlier(form, fixtures, team_id, before_date) ==
    /\ Len(form) = 5
    /\ \A i \in 1..5 : form[i] \in {0, 1, 3}
    /\ form = get_team_recent_form(DatedBefore(fixtures, before_date), team_id, before_date)

\* C22: get_team_recent_form returns exactly 5 values of {0,1,3}, built only
\* from the fixtures dated before before_date: a fixture dated at or after
\* it, such as the match fetch_training_data builds the features of,
\* contributes nothing; missing results are draws (1) put at the front.
C22_FormOnlyFromEarlierFixtures ==
    /\ probe_out.op = "get_team_recent_form" =>
          FormOfEarlier(probe_out.form, probe_in.fixtures, probe_in.team_id,
                        probe_in.before_date)
    /\ probe_out.op = "fetch_training_data" =>
          /\ FormOfEarlier(probe_out.home_form, probe_in.fixtures,
                           probe_out.match.home_id, probe_out.match.date)
          /\ FormOfEarlier(probe_out.away_form, probe_in.fixtures,
                           probe_out.match.away_id, probe_out.match.date)

(***************************************************************************)
(* SpecRate: the requests of one HistoricalDataFetcher.  Times are in      *)
(* milliseconds.  call holds the clock (time.time()) and                   *)
(* self.last_request_time, probe_in the last _make_request call, probe_out *)
(* the instants at which the last two requests.get calls were made.        *)
(***************************************************************************)
min_request_interval == 100

\* The clock when the fetcher is constructed, and the last instant modelled
StartClock == 1000

MaxClock == 1600

\* What passes between two calls and what a requests.get call takes
Durations == {0, 50, 100, 150}

\* requests.get: the status of the response, or the exception raised
GetOutcomes == {200, 429, 500, -1}

RequestException == -1

\* Lines 24-40
InitRate ==
    /\ trainer = NoTrainer
    /\ feature_engineer = NewFeatureEngineer
    /\ model_file = NoFile
    /\ hash_seed = 0
    /\ xgboost_available = FALSE
    /\ call = [now |-> StartClock, last_request_time |-> 0]
    /\ engineer = NewFeatureEngineer
    /\ probe_in = NoCall
    /\ probe_first = NoCall
    /\ probe_out = <<>>

\* Lines 45-47: the instant requests.get is called at
RequestInstant(now, last_request_time) ==
    IF now - last_request_time < min_request_interval
    THEN now + (min_request_interval - (now - last_request_time))
    ELSE now

\* Lines 49-64: what _make_request returns
MadeRequest(outcome) ==
    IF outcome = 200 THEN "response.json()" ELSE "{}"

\* Lines 50-51 and 62: last_request_time is set once requests.get has returned
LastRequestTime(outcome, returned_at, last_request_time) ==
    IF outcome = RequestException THEN last_request_time ELSE returned_at

\* the instants of the last two requests
Instants(log, at) == IF log = <<>> THEN <<at>> ELSE <<log[Len(log)], at>>

\* Lines 42-64, with the time requests.get takes and how it ends
MakeRequest(took, outcome) ==
    /\ RequestInstant(call.now, call.last_request_time) + took <= MaxClock
    /\ call' = [now |-> RequestInstant(call.now, call.last_request_time) + took,
                last_request_time |->
                    LastRequestTime(outcome,
                        RequestInstant(call.now, call.last_request_time) + took,
                        call.last_request_time)]
    /\ probe_in' = [op |-> "_make_request", outcome |-> outcome, took |-> took,
                    returned |-> MadeRequest(outcome)]
    /\ probe_out' = Instants(probe_out, RequestInstant(call.now, call.last_request_time))
    /\ UNCHANGED <<trainer, feature_engineer, model_file, hash_seed, xgboost_available, engineer, probe_first>>

\* The caller's work between two requests
Elapse(d) ==
    /\ d > 0
    /\ call.now + d <= MaxClock
    /\ call' = [call EXCEPT !.now = @ + d]
    /\ UNCHANGED <<trainer, feature_engineer, model_file, hash_seed, xgboost_available, engineer, probe_in, probe_first, probe_out>>

NextRate ==
    \/ \E took \in Durations, outcome \in GetOutcomes : MakeRequest(took, outcome)
    \/ \E d \in Durations : Elapse(d)

SpecRate == InitRate /\ [][NextRate]_vars

\* C23: any two consecutive HTTP requests made through _make_request are at
\* least min_request_interval (0.1 s) apart, whatever the earlier requests
\* did: succeeded, returned an error status or raised an exception.
C23_RequestsAreSpaced ==
    Len(probe_out) = 2 => probe_out[2] - probe_out[1] >= min_request_interval

(***************************************************************************)
(* accumulate_data (accumulate_training_data.py).  A fixture of the API is *)
(* the record of the fields the code reads; a row of the dataset holds the *)
(* columns home_goals, away_goals and match_date, and under ratings the    *)
(* fixture the 32 rating and form columns were computed for.  A DataFrame  *)
(* is the sequence of its rows.                                            *)
(***************************************************************************)
NoId == 0

\* Lines 71-78: the fixture has its two team ids and its date
Complete(fixture) ==
    fixture.home_id # NoId /\ fixture.away_id # NoId /\ fixture.date # NoDate

\* Lines 82-88: a row of the existing data has the fixture's two scores
AlreadyExists(existing_data, fixture) ==
    /\ existing_data # <<>>
    /\ \E i \in DOMAIN existing_data :
          /\ existing_data[i].home_goals = OrZero(fixture.home)
          /\ existing_data[i].away_goals = OrZero(fixture.away)

\* Lines 90-115
MatchData(fixture) ==
    [ratings |-> <<fixture.home_id, fixture.away_id, fixture.date>>,
     home_goals |-> OrZero(fixture.home),
     away_goals |-> OrZero(fixture.away),
     match_date |-> fixture.date]

\* Lines 61-121
RECURSIVE NewMatches(_, _, _)
NewMatches(existing_data, fixtures, all_new_matches) ==
    IF fixtures = <<>> THEN all_new_matches
    ELSE IF ~Complete(Head(fixtures)) \/ AlreadyExists(existing_data, Head(fixtures))
    THEN NewMatches(existing_data, Tail(fixtures), all_new_matches)
    ELSE NewMatches(existing_data, Tail(fixtures),
                    Append(all_new_matches, MatchData(Head(fixtures))))

\* drop_duplicates(subset=['home_goals', 'away_goals', 'match_date'], keep='first')
SameSubset(a, b) ==
    /\ a.home_goals = b.home_goals
    /\ a.away_goals = b.away_goals
    /\ a.match_date = b.match_date

RECURSIVE drop_duplicates(_, _)
drop_duplicates(rows, kept) ==
    IF rows = <<>> THEN kept
    ELSE IF \E i \in DOMAIN kept : SameSubset(kept[i], Head(rows))
    THEN drop_duplicates(Tail(rows), kept)
    ELSE drop_duplicates(Tail(rows), Append(kept, Head(rows)))

\* Lines 129-137
Combined(existing_data, new_df) ==
    IF existing_data # <<>> THEN drop_duplicates(existing_data \o new_df, <<>>)
    ELSE new_df

\* Lines 49-56: pd.read_csv of the file, or the empty DataFrame
NoCsv == [exists |-> FALSE, rows |-> <<>>]

ExistingData(csv_file) == IF csv_file.exists THEN csv_file.rows ELSE <<>>

\* Lines 123-140: the file after the run
Saved(csv_file, all_new_matches) ==
    IF all_new_matches = <<>> THEN csv_file
    ELSE [exists |-> TRUE, rows |-> Combined(ExistingData(csv_file), all_new_matches)]

\* Lines 15-153, given the fixtures get_league_fixtures returned for the
\* leagues, one league after another
accumulate_data(csv_file, fixtures) ==
    Saved(csv_file, NewMatches(ExistingData(csv_file), fixtures, <<>>))

(***************************************************************************)
(* SpecAccumulate: accumulate_data run day after day.  call holds the CSV  *)
(* file, probe_in the fixtures the last run fetched and the file it found, *)
(* probe_out the matches the run took as new.                              *)
(***************************************************************************)
MaxFetched == 2

MaxStored == 3

LeagueFixtures ==
    {[date |-> d, home_id |-> t[1], away_id |-> t[2], home |-> g[1], away |-> g[2]] :
        d \in {1, 2}, t \in {<<1, 2>>, <<3, 4>>, <<NoId, 4>>},
        g \in {<<1, 1>>, <<2, NoGoals>>}}

\* What a run fetches: no fixture twice
Fetches ==
    {s \in UNION {[1..n -> LeagueFixtures] : n \in 0..MaxFetched} :
        \A i, j \in DOMAIN s : s[i] = s[j] => i = j}

InitAccumulate ==
    /\ trainer = NoTrainer
    /\ feature_engineer = NewFeatureEngineer
    /\ model_file = NoFile
    /\ hash_seed = 0
    /\ xgboost_available = FALSE
    /\ call = [csv_file |-> NoCsv]
    /\ engineer = NewFeatureEngineer
    /\ probe_in = NoCall
    /\ probe_first = NoCall
    /\ probe_out = NoCall

AccumulateData(fixtures) ==
    /\ Len(ExistingData(call.csv_file)) + Len(fixtures) <= MaxStored
    /\ call' = [csv_file |-> accumulate_data(call.csv_file, fixtures)]
    /\ probe_in' = [op |-> "accumulate_data", fixtures |-> fixtures,
                    existing_data |-> ExistingData(call.csv_file)]
    /\ probe_out' = [op |-> "accumulate_data",
                     all_new_matches |->
                        NewMatches(ExistingData(call.csv_file), fixtures, <<>>)]
    /\ UNCHANGED <<trainer, feature_engineer, model_file, hash_seed, xgboost_available, engineer, probe_first>>

NextAccumulate == \E fixtures \in Fetches : AccumulateData(fixtures)

SpecAccumulate == InitAccumulate /\ [][NextAccumulate]_vars

\* the rows built for the fixture
IsRowOf(row, fixture) ==
    row.ratings = <<fixture.home_id, fixture.away_id, fixture.date>>

Holds(rows, row) == \E i \in DOMAIN rows : rows[i] = row

\* C24: accumulate_data skips a fetched match as a duplicate only when that
\* same match is already in the existing dataset; a new match that merely
\* has the home_goals and away_goals of some stored row is still added.
C24_OnlyStoredMatchesSkipped ==
    probe_in.op = "accumulate_data" =>
        \A i \in DOMAIN probe_in.fixtures :
            (/\ Complete(probe_in.fixtures[i])
             /\ ~\E k \in DOMAIN probe_in.existing_data :
                    IsRowOf(probe_in.existing_data[k], probe_in.fixtures[i]))
            => \E k \in DOMAIN probe_out.all_new_matches :
                    IsRowOf(probe_out.all_new_matches[k], probe_in.fixtures[i])

\* C25: over any sequence of accumulate_data runs the stored dataset only
\* grows: every row of accumulated_training_data.csv before a run is still
\* there after it, and a run that finds no new match leaves the file as it
\* was.
C25_DatasetOnlyGrows ==
    probe_in.op = "accumulate_data" =>
        /\ \A i \in DOMAIN probe_in.existing_data :
              Holds(ExistingData(call.csv_file), probe_in.existing_data[i])
        /\ probe_out.all_new_matches = <<>> =>
              ExistingData(call.csv_file) = probe_in.existing_data

(***************************************************************************)
(* FootballDataAPI (api_integration.py).  The answers of the HTTP API and  *)
(* the random draws are given to the operators: api holds what each of the *)
(* four requests of a fetch does, draws the quantiles of the normal        *)
(* variates and the choices of the simulated form.                         *)
(***************************************************************************)
\* 'manchester', 'barcelona', 'real madrid', 'bayern', 'liverpool', 'city',
\* 'united', 'juventus', 'psg', 'chelsea', 'arsenal'
top_teams ==
    { <<109, 97, 110, 99, 104, 101, 115, 116, 101, 114>>,
      <<98, 97, 114, 99, 101, 108, 111, 110, 97>>,
      <<114, 101, 97, 108, 32, 109, 97, 100, 114, 105, 100>>,
      <<98, 97, 121, 101, 114, 110>>,
      <<108, 105, 118, 101, 114, 112, 111, 111, 108>>,
      <<99, 105, 116, 121>>,
      <<117, 110, 105, 116, 101, 100>>,
      <<106, 117, 118, 101, 110, 116, 117, 115>>,
      <<112, 115, 103>>,
      <<99, 104, 101, 108, 115, 101, 97>>,
      <<97, 114, 115, 101, 110, 97, 108>> }

\* top in team_name.lower()
Contains(s, sub) ==
    \E i \in 1..(Len(s) - Len(sub) + 1) : SubSeq(s, i, i + Len(sub) - 1) = sub

\* Ratings left as they were drawn.
NormalRatings_Unclipped(mean, std, stream) ==
    [i \in 1..NPlayers |-> RoundDiv(mean + Normal(std, stream[i]), Milli)]

\* np.clip(np.random.normal(mean, std, 11), 50, 99).tolist(), the mean and the
\* standard deviation in thousandths
NormalRatings(mean, std, stream) ==
    generate_player_ratings([i \in 1..NPlayers |-> RoundDiv(mean + Normal(std, stream[i]), Milli)])

\* Lines 271-304
_simulate_team_data(team_name, draws) ==
    [team_name |-> team_name,
     player_ratings |->
        NormalRatings(IF \E top \in top_teams : Contains(Lower(team_name), top)
                      THEN 85000 ELSE 75000, 8000, draws.ratings),
     recent_form |-> generate_recent_form(draws.form),
     source |-> "simulated"]

\* Lines 243-261: the base rating in thousandths, given the totals of the
\* statistics
BaseRating(wins, total_matches, goals_for, goals_against) ==
    IF total_matches > 0
    THEN Clip(60000 + RoundDiv(wins * 20000, total_matches)
                    + RoundDiv(goals_for * 5000, total_matches)
                    - RoundDiv(goals_against * 3000, total_matches), 60000, 92000)
    ELSE Clip(60000 + 8000 + 7500 - 3000, 60000, 92000)

\* Lines 213-269; stats_data is the dict under 'response', <<>> when there
\* is none
_convert_stats_to_ratings(stats_data, stream) ==
    IF stats_data = <<>> THEN NormalRatings(75000, 10000, stream)
    ELSE NormalRatings(BaseRating(stats_data.wins,
                                  stats_data.wins + stats_data.draws + stats_data.losses,
                                  stats_data.goals_for, stats_data.goals_against),
                       6000, stream)

\* fixtures[-5:] and form[-5:]
LastFive(s) == IF Len(s) > 5 THEN SubSeq(s, Len(s) - 4, Len(s)) ELSE s

\* Lines 372-406
RECURSIVE ExtractLoop(_, _, _)
ExtractLoop(fixtures, team_id, form) ==
    IF fixtures = <<>> THEN form
    ELSE IF Head(fixtures).status \notin {"FT", "AET", "PEN"}
    THEN ExtractLoop(Tail(fixtures), team_id, form)
    ELSE ExtractLoop(Tail(fixtures), team_id,
                     Append(form, FixtureResult(Head(fixtures), team_id)))

\* Lines 352-418; fixtures is the list under 'response', <<>> when there is
\* none
_extract_form_from_fixtures(fixtures, team_id) ==
    IF fixtures = <<>> THEN <<1, 1, 1, 1, 1>>
    ELSE LastFive(PadFront(ExtractLoop(LastFive(fixtures), team_id, <<>>)))

\* Lines 121-174, given the team found
Fetched(team_name, api, draws) ==
    IF "timeout" \in {api.stats, api.fixtures}
    THEN [result |-> _simulate_team_data(team_name, draws),
          requests |-> IF api.stats = "timeout" THEN 3 ELSE 4,
          store |-> FALSE]
    ELSE [result |->
            [team_name |-> api.teams[1].name,
             player_ratings |->
                _convert_stats_to_ratings(IF api.stats = "200" THEN api.stats_data ELSE <<>>,
                                          draws.ratings),
             recent_form |->
                _extract_form_from_fixtures(IF api.fixtures = "200" THEN api.fixtures_data
                                            ELSE <<>>, api.teams[1].id),
             team_id |-> api.teams[1].id,
             source |-> "api-football"],
          requests |-> 4,
          store |-> TRUE]

\* self.cache[cache_key] = result, when the fetch got to line 171
Stored(cache, cache_key, fetch) ==
    [result |-> fetch.result, requests |-> fetch.requests,
     cache |-> IF fetch.store THEN (cache_key :> fetch.result) @@ cache ELSE cache]

\* A fetch that stores what it returns under the name as given.
CacheKey_AsGiven(team_name) == team_name

\* Line 87 (without the prefix "team_")
CacheKey(team_name) == Lower(team_name)

\* Lines 76-184: the result, the HTTP requests made and the cache after the call
_fetch_real_team_data(cache, team_name, api, draws) ==
    IF CacheKey(team_name) \in DOMAIN cache
    THEN [result |-> cache[CacheKey(team_name)], requests |-> 0, cache |-> cache]
    ELSE IF api.search \in {"429", "500", "timeout", "error"} \/ api.teams = <<>>
    THEN [result |-> _simulate_team_data(team_name, draws), requests |-> 1, cache |-> cache]
    ELSE Stored(cache, CacheKey(team_name), Fetched(team_name, api, draws))

\* Lines 61-74
get_team_data(use_real_api, cache, team_name, api, draws) ==
    IF use_real_api THEN _fetch_real_team_data(cache, team_name, api, draws)
    ELSE [result |-> _simulate_team_data(team_name, draws), requests |-> 0, cache |-> cache]

(***************************************************************************)
(* SpecTeamData: get_team_data called again and again on one               *)
(* FootballDataAPI, in real or in simulated mode, whatever the API         *)
(* answers.  call holds use_real_api and the cache, probe_in the last call *)
(* with the cache it found, probe_out its result and the HTTP requests it  *)
(* made.                                                                   *)
(***************************************************************************)
\* "Arsenal", "ARSENAL", "Leeds"
TeamDataNames == {<<65, 114, 115, 101, 110, 97, 108>>, <<65, 82, 83, 69, 78, 65, 76>>, <<76, 101, 101, 100, 115>>}

FoundTeams == {[id |-> 42, name |-> <<65, 114, 115, 101, 110, 97, 108>>], [id |-> 63, name |-> <<76, 101, 101, 100, 115>>]}

\* The dicts under 'response' of /teams/statistics: a season of wins, a
\* season of defeats, and no match played
StatsData ==
    {[wins |-> 30, draws |-> 4, losses |-> 4, goals_for |-> 95, goals_against |-> 30],
     [wins |-> 0, draws |-> 2, losses |-> 20, goals_for |-> 9, goals_against |-> 70],
     [wins |-> 0, draws |-> 0, losses |-> 0, goals_for |-> 0, goals_against |-> 0]}

ApiFixture(status, home_id, home, away) ==
    [status |-> status, home_id |-> home_id, home |-> home, away |-> away]

\* The lists under 'response' of /fixtures: six fixtures, one of them not
\* played yet, and two fixtures
FixturesData ==
    {<<ApiFixture("FT", 42, 3, 0), ApiFixture("FT", 63, 2, 2), ApiFixture("AET", 63, 2, 1),
       ApiFixture("NS", 42, NoGoals, NoGoals), ApiFixture("PEN", 42, 1, 1),
       ApiFixture("FT", 42, 0, 2)>>,
     <<ApiFixture("FT", 7, 0, 1), ApiFixture("FT", 42, 4, 1)>>}

\* What the requests of one fetch do: the search fails or finds no team, or
\* finds one and the two further requests answer or fail
ApiAnswers ==
    {[search |-> s, teams |-> <<>>, stats |-> "500", stats_data |-> <<>>,
      fixtures |-> "500", fixtures_data |-> <<>>] :
        s \in {"429", "500", "timeout", "error", "200"}}
    \cup {[search |-> "200", teams |-> <<t>>, stats |-> st[1], stats_data |-> st[2],
           fixtures |-> fx[1], fixtures_data |-> fx[2]] :
            t \in FoundTeams,
            st \in {<<"500", <<>> >>, <<"timeout", <<>> >>, <<"200", <<>> >>}
                   \cup {<<"200", d>> : d \in StatsData},
            fx \in {<<"500", <<>> >>, <<"timeout", <<>> >>, <<"200", <<>> >>}
                   \cup {<<"200", d>> : d \in FixturesData}}

\* The quantiles of the eleven normal draws and the choices of the five results
TeamDraws == {[ratings |-> <<1, 5, 3, 2, 4, 1, 5, 3, 2, 4, 3>>, form |-> <<1, 2, 3, 1, 2>>]}

\* Lines 31-59: real mode needs an API key
InitTeamData ==
    /\ trainer = NoTrainer
    /\ feature_engineer = NewFeatureEngineer
    /\ model_file = NoFile
    /\ hash_seed = 0
    /\ xgboost_available = FALSE
    /\ call \in [use_real_api : BOOLEAN, cache : {<<>>}]
    /\ engineer = NewFeatureEngineer
    /\ probe_in = NoCall
    /\ probe_first = NoCall
    /\ probe_out = NoCall

\* the call done, given what get_team_data gave
TeamDataDone(team_name, got) ==
    /\ call' = [call EXCEPT !.cache = got.cache]
    /\ probe_in' = [op |-> "get_team_data", team_name |-> team_name, cache |-> call.cache]
    /\ probe_out' = [op |-> "get_team_data", result |-> got.result,
                     requests |-> got.requests]

GetTeamData(team_name, api, draws) ==
    /\ TeamDataDone(team_name,
                    get_team_data(call.use_real_api, call.cache, team_name, api, draws))
    /\ UNCHANGED <<trainer, feature_engineer, model_file, hash_seed, xgboost_available, engineer, probe_first>>

NextTeamData ==
    \E team_name \in TeamDataNames, api \in ApiAnswers, draws \in TeamDraws :
        GetTeamData(team_name, api, draws)

SpecTeamData == InitTeamData /\ [][NextTeamData]_vars

\* C26: in real mode, once a fetch for a team has succeeded, every later
\* get_team_data call with that name in any case returns the cached result
\* and makes no HTTP request; a result that comes from the fallback to
\* simulated data (rate limit, other status, team not found, timeout or any
\* other exception) is never put in the cache, so the next call asks the API
\* again.
C26_CacheHoldsFetchedOnly ==
    (probe_out.op = "get_team_data" /\ call.use_real_api) =>
        /\ \A k \in DOMAIN call.cache : call.cache[k].source = "api-football"
        /\ \A k \in DOMAIN probe_in.cache :
              k \in DOMAIN call.cache /\ call.cache[k] = probe_in.cache[k]
        /\ IF Lower(probe_in.team_name) \in DOMAIN probe_in.cache
           THEN /\ probe_out.result = probe_in.cache[Lower(probe_in.team_name)]
                /\ probe_out.requests = 0
                /\ DOMAIN call.cache = DOMAIN probe_in.cache
           ELSE /\ probe_out.requests >= 1
                /\ IF probe_out.result.source = "simulated"
                   THEN DOMAIN call.cache = DOMAIN probe_in.cache
                   ELSE /\ DOMAIN call.cache =
                              DOMAIN probe_in.cache \cup {Lower(probe_in.team_name)}
                        /\ call.cache[Lower(probe_in.team_name)] = probe_out.result

\* "ARSENAL" is answered from the cache, filled by a fetch for the name in
\* some case, while "leeds" is in the cache too
C26_Witness ==
    /\ call.use_real_api
    /\ probe_out.op = "get_team_data"
    /\ probe_in.team_name = <<65, 82, 83, 69, 78, 65, 76>>
    /\ Lower(probe_in.team_name) \in DOMAIN probe_in.cache
    /\ probe_out.requests = 0
    /\ probe_out.result.source = "api-football"
    /\ probe_out.result.team_id = 42
    /\ probe_out.result.recent_form = <<1, 1, 0, 1, 0>>
    /\ Cardinality(DOMAIN call.cache) = 2

\* C27: in real mode, in simulated mode and on every fallback, whatever the
\* API answers, get_team_data returns exactly 11 player ratings within
\* [50,99] and exactly 5 form values of {0,1,3}: data that passes the
\* validation of predict_match.
C27_TeamDataIsValid ==
    probe_out.op = "get_team_data" =>
        /\ Len(probe_out.result.player_ratings) = NPlayers
        /\ \A i \in DOMAIN probe_out.result.player_ratings :
              probe_out.result.player_ratings[i] \in RatingsInRange
        /\ Len(probe_out.result.recent_form) = NResults
        /\ \A i \in DOMAIN probe_out.result.recent_form :
              probe_out.result.recent_form[i] \in FormValues
        /\ _validate_inputs(probe_out.result.player_ratings,
                            probe_out.result.player_ratings,
                            probe_out.result.recent_form,
                            probe_out.result.recent_form).status = "returned"

\* ratings fetched from the statistics of a strong season, some drawn above 99,
\* and a form of two results padded with three draws
C27_Witness ==
    /\ probe_out.op = "get_team_data"
    /\ probe_out.result.source = "api-football"
    /\ \E i \in DOMAIN probe_out.result.player_ratings :
          probe_out.result.player_ratings[i] = MaxRating
    /\ \E i \in DOMAIN probe_out.result.player_ratings :
          probe_out.result.player_ratings[i] = 68
    /\ probe_out.result.recent_form = <<1, 1, 1, 3, 3>>

(***************************************************************************)
(* SpecSuggest: lines 187-280 of predict_match_detailed on the prediction  *)
(* of any match and any refined scoreline.  probe_in holds the match, the  *)
(* raw and the refined scores, probe_out the dict returned.                *)
(***************************************************************************)
\* Home squads whose ratings sum to 24 below up to 24 above those of the away
\* squad, and the two squads furthest apart
SuggestSquads ==
    {<<[Rep(NPlayers, 75) EXCEPT ![1] = 75 + k], Rep(NPlayers, 75)>> :
        k \in (-12..12) \cup {-24, -22, 22, 24}}
    \cup {<<Rep(NPlayers, MaxRating), Rep(NPlayers, MinRating)>>,
          <<Rep(NPlayers, MinRating), Rep(NPlayers, MaxRating)>>}

\* <<home form, away form>>
SuggestForms ==
    {<<hf, af>> :
        hf \in {<<0, 0, 0, 0, 0>>, <<3, 0, 0, 0, 0>>, <<3, 1, 0, 0, 0>>, <<3, 1, 1, 0, 0>>,
                <<3, 3, 0, 0, 0>>, <<3, 3, 1, 0, 0>>, <<3, 3, 1, 1, 0>>, <<3, 3, 3, 0, 0>>,
                <<3, 3, 3, 3, 3>>},
        af \in {<<0, 0, 0, 0, 0>>, <<3, 3, 0, 0, 0>>, <<3, 3, 3, 3, 3>>}}

SuggestScores == {<<h, a>> : h \in {0, 1, 2, MaxRefined}, a \in {0, 1, 2, MaxRefined}} \cup {<<3, 3>>}

SuggestInputs ==
    {[m |-> Match(s[1], s[2], f[1], f[2]), raw |-> raw, refined |-> refined] :
        s \in SuggestSquads, f \in SuggestForms, raw \in {<<1, 1>>, <<3, 0>>},
        refined \in SuggestScores}

InitSuggest ==
    /\ AgentIdle
    /\ engineer = NewFeatureEngineer
    /\ probe_in \in SuggestInputs
    /\ probe_first = NoCall
    /\ probe_out = NoCall

\* Lines 187-280, the team names being "ARS" and "CHE"
SuggestOutcome ==
    /\ probe_out = NoCall
    /\ probe_out' = [op |-> "predict_match_detailed",
                     result |-> Relabelled(<<65, 82, 83>>, <<67, 72, 69>>,
                                    ResultDict(probe_in.m, probe_in.raw[1], probe_in.raw[2]),
                                    [home_score |-> probe_in.refined[1],
                                     away_score |-> probe_in.refined[2]])]
    /\ UNCHANGED <<engineer, probe_in, probe_first>>
    /\ UNCHANGED agent_vars

NextSuggest == SuggestOutcome

SpecSuggest == InitSuggest /\ [][NextSuggest]_vars

\* tie_bias of line 241 for the match, in thousandths
TieBiasOf(m) ==
    Tanh(3 * StrengthAdvantage(m.home_players, m.away_players)
         + 20 * (SumSeq(m.home_form) - SumSeq(m.away_form)))

=============================================================================
